---- MODULE Spec2Model ----
(***************************************************************************)
(* A model of the heuristic scoring engine of the focus-flow python        *)
(* service: the distraction analyzer (distraction_detector.py), the        *)
(* duration predictor (time_predictor.py), the suggestion ranker           *)
(* (smart_suggestions.py) and the focus coach (focus_coach.py).            *)
(*                                                                         *)
(* Each component is a request/response machine: the caller assembles a    *)
(* request record by record (pc = "build"), one action runs the whole      *)
(* engine call on it and stores what the call returned or the exception    *)
(* it raised (pc = "done"), and the caller starts over.  EngineSpec is the *)
(* union of the components, one request at a time; BlendSpec and           *)
(* SimilarSpec run the predictor over long histories, ReportSpec the      *)
(* analyzer over four recent activities with scores; ConcurrentSpec        *)
(* interleaves the steps of several calls on the shared instances of       *)
(* ai_routes.py.                                                           *)
(*                                                                         *)
(* A division by zero is the marked value ZeroDivision.                    *)
(* Numbers: Python floats are modelled by exact rationals [num, den] in    *)
(* lowest terms; category weights are kept in tenths and confidence in     *)
(* hundredths where the source only adds and compares them.  Binary        *)
(* rounding error is not modelled: where the exact value of an estimate is *)
(* an integer and the float computed for it falls just below, as for       *)
(* 90 * (1 + 2 * 0.2) = 125.99999999999999, int() of the code gives one    *)
(* less than the model.  The fields of the results that are kept are the   *)
(* numbers, counts, categories and pattern types; texts (recommendations,  *)
(* reasoning, titles), model_version and the analysed_at / predicted_at    *)
(* stamps are left out.                                                    *)
(***************************************************************************)
EXTENDS Integers, Sequences, FiniteSets, TLC

VARIABLES
    pc,                 \* "build": a request is being assembled; "done": the call returned
    activities,         \* analyze_activity_patterns: the activity list passed in
    time_window_hours,  \* analyze_activity_patterns: the window passed in
    report,             \* analyze_activity_patterns: what the call produced
    task,               \* predict_task_duration: the task passed in
    tasks,              \* batch_predict, generate_suggestions, FocusCoach: the task list passed in
    historical_data,    \* predict_task_duration, batch_predict: the history passed in
    user_profile,       \* predict_task_duration, batch_predict: the profile passed in
    prediction,         \* what predict_task_duration returned
    predictions,        \* what batch_predict returned
    focus_sessions,     \* generate_suggestions: the focus sessions passed in
    activity_patterns,  \* generate_suggestions: the activity patterns passed in
    suggestions,        \* what generate_suggestions produced
    openai_client,      \* FocusCoach: the backend handle the instance was built with
    user_preferences,   \* generate_focus_plan: the preferences passed in
    available_hours,    \* generate_focus_plan: the hours passed in
    summary,            \* what summarize_tasks produced
    plan,               \* what generate_focus_plan produced
    instances,          \* the fields of the shared component instances
    calls               \* the invocations in flight on the shared instances

detectorVars == <<activities, time_window_hours, report>>
predictorVars == <<task, tasks, historical_data, user_profile, prediction, predictions>>
suggestionVars == <<focus_sessions, activity_patterns, suggestions>>
coachVars == <<openai_client, user_preferences, available_hours, summary, plan>>
sharedVars == <<instances, calls>>
vars == <<pc, detectorVars, predictorVars, suggestionVars, coachVars, sharedVars>>

----------------------------------------------------------------------------
(* Bounds of the model *)

\* Longest activity list a request carries.
MaxActivities == 2
\* Longest history passed to predict_task_duration.
MaxHistory == 3
\* Longest task list passed to batch_predict, and longest history passed with it.
MaxBatch == 2
MaxBatchHistory == 1
\* Longest lists passed to generate_suggestions.
MaxSessions == 2
MaxSuggestionTasks == 1
MaxPatterns == 1
\* Longest task list passed to the focus coach.
MaxCoachTasks == 2
\* Number of invocations in flight at once on the shared instances.
MaxCalls == 2
\* Longest history of the blend runs: five similar tasks give full weight.
MaxBlendHistory == 5
\* Longest history of the similarity runs: one more than the cap of ten.
MaxSimilarHistory == 11
\* Longest activity list of the report runs: more categories than the three counted.
MaxReportActivities == 4

----------------------------------------------------------------------------
(* Exact rational arithmetic standing for Python float arithmetic *)

Abs(x) == IF x < 0 THEN -x ELSE x

RECURSIVE GCD(_, _)
GCD(a, b) == IF b = 0 THEN a ELSE GCD(b, a % b)

\* The outcome of a division by zero, where Python raises ZeroDivisionError.
ZeroDivision == [num |-> 0, den |-> 0]

\* n / d
Rat(n, d) ==
    IF d = 0 THEN ZeroDivision
    ELSE LET s == IF d < 0 THEN -1 ELSE 1
             g == GCD(Abs(n), Abs(d))
         IN  [num |-> (s * n) \div g, den |-> (s * d) \div g]

RInt(n) == [num |-> n, den |-> 1]
RAdd(a, b) == Rat(a.num * b.den + b.num * a.den, a.den * b.den)
RMul(a, b) == Rat(a.num * b.num, a.den * b.den)
RLeq(a, b) == a.num * b.den <= b.num * a.den
RLess(a, b) == a.num * b.den < b.num * a.den
RMin(a, b) == IF RLess(b, a) THEN b ELSE a
\* int(x): truncation toward zero
RTrunc(a) == IF a.num >= 0 THEN a.num \div a.den ELSE -((-a.num) \div a.den)

RECURSIVE SumSeq(_)
SumSeq(s) == IF s = <<>> THEN 0 ELSE Head(s) + SumSeq(Tail(s))

\* The keys of a sequence in order of first occurrence (dict insertion order).
RECURSIVE FirstOccurrences(_)
FirstOccurrences(s) ==
    IF s = <<>> THEN <<>>
    ELSE LET rest == FirstOccurrences(SubSeq(s, 1, Len(s) - 1))
             last == s[Len(s)]
         IN  IF \E i \in 1..Len(rest) : rest[i] = last THEN rest ELSE Append(rest, last)

\* A stable sort: x goes before y when Before(x, y); elements neither of which
\* goes before the other keep their order.
StableSort(seq, Before(_, _)) ==
    LET n == Len(seq)
        rank(i) == 1 + Cardinality({j \in 1..n :
                        \/ Before(seq[j], seq[i])
                        \/ (~Before(seq[i], seq[j]) /\ j < i)})
    IN  [p \in 1..n |-> seq[CHOOSE i \in 1..n : rank(i) = p]]

\* sorted(seq, key=Key, reverse=True): descending, equal keys keep their order.
SortedDesc(seq, Key(_)) == StableSort(seq, LAMBDA x, y : Key(x) > Key(y))

Take(seq, n) == SubSeq(seq, 1, IF Len(seq) < n THEN Len(seq) ELSE n)

----------------------------------------------------------------------------
(* Time and timestamps *)

SecondsPerHour == 3600

\* datetime.now() of the call, in seconds; every timestamp is given relative to it.
Now == 500 * SecondsPerHour

\* A dictionary key that is not there.
NoKey == "<missing>"

\* str.lower() on the strings the model uses.
Lower(s) ==
    CASE s = "Entertainment" -> "entertainment"
      [] s = "Complex" -> "complex"
      [] s = "Coding" -> "coding"
      [] s = "Writing" -> "writing"
      [] s = "HIGH" -> "high"
      [] OTHER -> s

\* A timestamp string: its form and the wall-clock instant it spells.
\*   "naive"   2024-05-01T10:00:00        "zulu"  2024-05-01T10:00:00Z
\*   "garbage" not an ISO-8601 string
NaiveTs(t) == [form |-> "naive", at |-> t]
ZuluTs(t) == [form |-> "zulu", at |-> t]
GarbageTs == [form |-> "garbage", at |-> 0]
\* The record has no "timestamp" key.
MissingTs == [form |-> "missing", at |-> 0]

\* a.get("timestamp", "").replace("Z", "+00:00") handed to datetime.fromisoformat:
\* a missing key gives "", which like any non-ISO string raises ValueError; the
\* rewritten Z gives an offset-aware datetime, no suffix a naive one.
ParseTimestamp(ts) ==
    IF ts.form \in {"missing", "garbage"}
    THEN [raised |-> "ValueError", aware |-> FALSE, at |-> 0]
    ELSE [raised |-> "none", aware |-> (ts.form = "zulu"), at |-> ts.at]

\* parsed >= cutoff_time, cutoff_time being naive (datetime.now() - timedelta):
\* Python refuses to order an aware datetime against a naive one.
CompareWithCutoff(parsed, cutoff) ==
    IF parsed.raised # "none" THEN parsed.raised
    ELSE IF parsed.aware THEN "TypeError"
    ELSE IF parsed.at >= cutoff THEN "keep"
    ELSE "drop"

HourOf(t) == (t \div SecondsPerHour) % 24

\* The outcome of a call that ended with an exception propagated to the caller.
Raised(exc) == [status |-> "raised", exception |-> exc]

----------------------------------------------------------------------------
(* TimePredictor *)

\* self.base_estimates, minutes by task type.
base_estimates ==
    [email |-> 5, meeting |-> 60, coding |-> 90, writing |-> 45, research |-> 60,
     design |-> 120, review |-> 30, planning |-> 60, general |-> 30]

complexity_keywords == {"complex", "difficult", "challenging", "multiple", "several"}

\* A description: whether the key is there, its length in characters, its number
\* of words and the complexity keywords occurring in it.
NoDescription == [present |-> FALSE, chars |-> 0, words |-> 0, keywords |-> {}]
Description(chars, words, keywords) ==
    [present |-> TRUE, chars |-> chars, words |-> words, keywords |-> keywords]

\* The complexity keywords that are substrings of a (lower-cased) title word.
KeywordsIn(word) == IF word \in complexity_keywords THEN {word} ELSE {}

\* task.get("title", "").lower().split(): a title is kept as its words.
TitleWords(t) == [i \in 1..Len(t.title) |-> Lower(t.title[i])]
WordSet(t) == {TitleWords(t)[i] : i \in 1..Len(t.title)}

\* task.get("type", "general").lower()
TaskTypeOf(t) == Lower(IF t.type = NoKey THEN "general" ELSE t.type)
\* task.get("priority", "medium").lower()
TaskPriorityOf(t) == Lower(IF t.priority = NoKey THEN "medium" ELSE t.priority)

extract_features(t) ==
    [word_count |-> Len(t.title) + t.description.words,
     description_length |-> t.description.chars,
     task_type |-> TaskTypeOf(t),
     priority |-> TaskPriorityOf(t),
     complexity_score |->
         Cardinality({k \in complexity_keywords :
             \/ \E i \in 1..Len(t.title) : k \in KeywordsIn(TitleWords(t)[i])
             \/ k \in t.description.keywords})]

\* self.base_estimates.get(task_type, self.base_estimates["general"])
BaselineOfLiteralKey(task_type) == base_estimates["general"]

BaselineOf(task_type) ==
    IF task_type \in DOMAIN base_estimates
    THEN base_estimates[task_type]
    ELSE base_estimates["general"]

get_base_estimate(t, features) ==
    LET task_type == features.task_type
        base == RInt(BaselineOf(task_type))
        scaled ==
            IF task_type \in {"writing", "research", "email"}
            THEN IF features.word_count > 500 THEN RMul(base, Rat(3, 2))
                 ELSE IF features.word_count > 1000 THEN RMul(base, RInt(2))
                 ELSE base
            ELSE base
        complexity == features.complexity_score
    IN  IF complexity > 0 THEN RMul(scaled, Rat(5 + complexity, 5)) ELSE scaled

\* len(a & b) / len(a | b)
Jaccard(a, b) == Rat(Cardinality(a \cap b), Cardinality(a \cup b))

\* if a and b: similarity_score += len(a & b) / len(a | b) * weight
OverlapTerm(a, b, weight) ==
    IF a # {} /\ b # {} THEN RMul(Jaccard(a, b), RInt(weight)) ELSE RInt(0)

\* The similarity score of one historical task.
SimilarityScore(t, hist_task) ==
    LET typeTerm ==
            IF Lower(IF hist_task.type = NoKey THEN "" ELSE hist_task.type) = TaskTypeOf(t)
            THEN RInt(3) ELSE RInt(0)
        titleTerm == OverlapTerm(WordSet(t), WordSet(hist_task), 2)
        priorityTerm ==
            IF Lower(IF hist_task.priority = NoKey THEN "" ELSE hist_task.priority)
                   = TaskPriorityOf(t)
            THEN RInt(1) ELSE RInt(0)
        tagTerm == OverlapTerm(t.tags, hist_task.tags, 1)
    IN  RAdd(RAdd(typeTerm, titleTerm), RAdd(priorityTerm, tagTerm))

find_similar_tasks(t, history) ==
    Take(SelectSeq(history, LAMBDA h : RLeq(RInt(2), SimilarityScore(t, h))), 10)

\* t.get("actual_minutes") or t.get("duration_minutes"); 0 stands for a missing,
\* null or zero value, which Python's "or" and "if" treat alike.
ActualOf(h) == IF h.actual_minutes # 0 THEN h.actual_minutes ELSE h.duration_minutes

\* statistics.mean and statistics.median of a non-empty list of integers
Mean(xs) == Rat(SumSeq(xs), Len(xs))
Median(xs) ==
    LET n == Len(xs)
        sorted == SortedDesc(xs, LAMBDA x : x)
    IN  IF n % 2 = 1 THEN RInt(sorted[(n + 1) \div 2])
        ELSE Rat(sorted[n \div 2] + sorted[n \div 2 + 1], 2)

\* "if not historical_data": None and the empty list alike
NoHistory == [given |-> FALSE, items |-> <<>>]
History(items) == [given |-> TRUE, items |-> items]
HistoryIsFalsy(history) == ~history.given \/ history.items = <<>>

AdjustWithHistoryGeneralFallback(base_estimate, t, history) ==
    IF HistoryIsFalsy(history) THEN RInt(base_estimates["general"]) ELSE base_estimate

\* The blend with the similar-task count divided by 10 instead of 5.
AdjustWithHistoryTenthWeight(base_estimate, t, history) ==
    IF HistoryIsFalsy(history) THEN base_estimate
    ELSE LET similar_tasks == find_similar_tasks(t, history.items)
             withDuration == SelectSeq(similar_tasks, LAMBDA h : ActualOf(h) # 0)
             actual_durations == [i \in 1..Len(withDuration) |-> ActualOf(withDuration[i])]
         IN  IF similar_tasks = <<>> \/ actual_durations = <<>> THEN base_estimate
             ELSE LET adjusted == RAdd(RMul(Mean(actual_durations), Rat(3, 10)),
                                       RMul(Median(actual_durations), Rat(7, 10)))
                      similarity_confidence == RMin(Rat(Len(similar_tasks), 10), RInt(1))
                  IN  RAdd(RMul(base_estimate, RAdd(RInt(1), RMul(RInt(-1), similarity_confidence))),
                           RMul(adjusted, similarity_confidence))

adjust_with_history(base_estimate, t, history) ==
    IF HistoryIsFalsy(history) THEN base_estimate
    ELSE LET similar_tasks == find_similar_tasks(t, history.items)
             withDuration == SelectSeq(similar_tasks, LAMBDA h : ActualOf(h) # 0)
             actual_durations == [i \in 1..Len(withDuration) |-> ActualOf(withDuration[i])]
         IN  IF similar_tasks = <<>> \/ actual_durations = <<>> THEN base_estimate
             ELSE LET adjusted == RAdd(RMul(Mean(actual_durations), Rat(3, 10)),
                                       RMul(Median(actual_durations), Rat(7, 10)))
                      similarity_confidence == RMin(Rat(Len(similar_tasks), 5), RInt(1))
                  IN  RAdd(RMul(base_estimate, RAdd(RInt(1), RMul(RInt(-1), similarity_confidence))),
                           RMul(adjusted, similarity_confidence))

\* A profile: None, or a dict with or without average_task_duration_minutes
\* (0 stands for the key missing, null or zero).
NoProfile == [given |-> FALSE, fields |-> 0, average_task_duration_minutes |-> 0]
Profile(fields, avg) ==
    [given |-> TRUE, fields |-> fields, average_task_duration_minutes |-> avg]
\* "if not user_profile": None and the empty dict alike
ProfileIsFalsy(profile) == ~profile.given \/ profile.fields = 0

adjust_with_profile(estimate, profile) ==
    IF ProfileIsFalsy(profile) THEN estimate
    ELSE IF profile.average_task_duration_minutes # 0
    THEN RMul(estimate, Rat(profile.average_task_duration_minutes, 30))
    ELSE estimate

\* max(0.3, min(0.95, confidence)), in hundredths
ClampConfidenceNoCeiling(confidence) == IF confidence < 30 THEN 30 ELSE confidence

ClampConfidence(confidence) ==
    LET capped == IF confidence > 95 THEN 95 ELSE confidence
    IN  IF capped < 30 THEN 30 ELSE capped

\* Confidence in hundredths.
calculate_confidence(t, history, profile) ==
    LET similar_count ==
            IF HistoryIsFalsy(history) THEN 0
            ELSE Len(find_similar_tasks(t, history.items))
        historyBoost ==
            IF similar_count > 0
            THEN (IF 10 * similar_count < 30 THEN 10 * similar_count ELSE 30)
            ELSE 0
        profileBoost ==
            IF ~ProfileIsFalsy(profile) /\ profile.average_task_duration_minutes # 0
            THEN 20 ELSE 0
        vaguePenalty ==
            IF ~t.description.present \/ t.description.chars < 10 THEN 10 ELSE 0
    IN  ClampConfidence(50 + historyBoost + profileBoost - vaguePenalty)

\* The dictionary predict_task_duration returns, from the values it computed.
PredictionOf(t, features, base_estimate, final_estimate, confidence) ==
    [task_id |-> t.id,
     predicted_minutes |-> RTrunc(final_estimate),
     confidence_score |-> confidence,
     base_estimate_minutes |-> RTrunc(base_estimate),
     input_features |-> features]

predict_task_duration(t, history, profile) ==
    LET features == extract_features(t)
        base_estimate == get_base_estimate(t, features)
        adjusted_estimate == adjust_with_history(base_estimate, t, history)
        final_estimate == adjust_with_profile(adjusted_estimate, profile)
        confidence == calculate_confidence(t, history, profile)
    IN  PredictionOf(t, features, base_estimate, final_estimate, confidence)

BatchPredictReusingFirst(ts, history, profile) ==
    [i \in 1..Len(ts) |-> predict_task_duration(ts[1], history, profile)]

batch_predict(ts, history, profile) ==
    [i \in 1..Len(ts) |-> predict_task_duration(ts[i], history, profile)]

\* The tasks, histories and profiles a caller may send.
ShortDescription == Description(5, 1, {})
LongDescription == Description(40, 8, {})
EssayDescription == Description(3600, 600, {})
BookDescription == Description(7200, 1200, {"several", "multiple"})

TaskBodies ==
    {[title |-> <<"fix", "login">>, description |-> NoDescription,
      priority |-> "high", tags |-> {}],
     [title |-> <<"Complex", "fix">>, description |-> ShortDescription,
      priority |-> NoKey, tags |-> {"backend"}],
     [title |-> <<"weekly", "report">>, description |-> LongDescription,
      priority |-> "low", tags |-> {"docs"}],
     [title |-> <<"weekly", "report">>, description |-> EssayDescription,
      priority |-> "low", tags |-> {"docs"}],
     [title |-> <<>>, description |-> BookDescription,
      priority |-> "HIGH", tags |-> {}]}
TaskTypes == {"coding", "Writing", "email", "design", "unheard", NoKey}

TaskOf(id, type, body) ==
    [id |-> id, type |-> type, title |-> body.title, description |-> body.description,
     priority |-> body.priority, tags |-> body.tags]

TaskRecords == {TaskOf("t", type, body) : type \in TaskTypes, body \in TaskBodies}
BatchTaskRecords ==
    {TaskOf("t", type, body) : type \in {"coding", "Writing", NoKey},
        body \in {b \in TaskBodies : b.description # BookDescription}}

HistoryRecords ==
    {[type |-> "Coding", title |-> <<"fix", "login">>, priority |-> "high",
      tags |-> {}, actual_minutes |-> 60, duration_minutes |-> 0],
     [type |-> "coding", title |-> <<"refactor">>, priority |-> "low",
      tags |-> {"backend"}, actual_minutes |-> 125, duration_minutes |-> 0],
     [type |-> "writing", title |-> <<"weekly", "report">>, priority |-> "low",
      tags |-> {"docs"}, actual_minutes |-> 0, duration_minutes |-> 40],
     [type |-> NoKey, title |-> <<"weekly", "report">>, priority |-> NoKey,
      tags |-> {}, actual_minutes |-> 0, duration_minutes |-> 0]}

Profiles == {NoProfile, Profile(0, 0), Profile(1, 0), Profile(1, 45), Profile(2, 20)}

\* Tasks and finished tasks for histories long enough to reach the full blend
\* weight and the cap of ten: a record with no recorded duration, records that
\* match one task only, and records of different similarity to the same task.
FixLoginTask ==
    TaskOf("t", "coding", [title |-> <<"fix", "login">>, description |-> LongDescription,
                           priority |-> "high", tags |-> {}])
WeeklyReportTask ==
    TaskOf("t", "design", [title |-> <<"weekly", "report">>, description |-> ShortDescription,
                           priority |-> "low", tags |-> {"docs"}])
SameTaskRecord ==
    [type |-> "Coding", title |-> <<"fix", "login">>, priority |-> "high",
     tags |-> {}, actual_minutes |-> 60, duration_minutes |-> 0]
SameTypeRecord ==
    [type |-> "coding", title |-> <<"refactor">>, priority |-> "low",
     tags |-> {"backend"}, actual_minutes |-> 125, duration_minutes |-> 0]
UnfinishedRecord ==
    [type |-> "coding", title |-> <<"fix">>, priority |-> NoKey,
     tags |-> {}, actual_minutes |-> 0, duration_minutes |-> 0]
DesignRecord ==
    [type |-> "design", title |-> <<"weekly", "report">>, priority |-> "low",
     tags |-> {"docs"}, actual_minutes |-> 0, duration_minutes |-> 40]

BlendTasks == {FixLoginTask, WeeklyReportTask}
BlendRecords == {SameTaskRecord, SameTypeRecord, UnfinishedRecord, DesignRecord}
BlendProfiles == {NoProfile, Profile(1, 45)}
SimilarRecords == {SameTaskRecord, SameTypeRecord}

NoTask == TaskOf("", NoKey, [title |-> <<>>, description |-> NoDescription,
                             priority |-> NoKey, tags |-> {}])
NoPrediction == [status |-> "none"]

PredictorIdle ==
    /\ task = NoTask
    /\ tasks = <<>>
    /\ historical_data = NoHistory
    /\ user_profile = NoProfile
    /\ prediction = NoPrediction
    /\ predictions = <<>>

----------------------------------------------------------------------------
(* SmartSuggestions *)

Generated(list) == [raised |-> "none", list |-> list]
Failed(exc) == [raised |-> exc, list |-> <<>>]

\* _generate_schedule_suggestions: the three start hours with the best
\* duration / max(interruptions, 1); priority_score 0.85.
generate_schedule_suggestions(sessions) ==
    LET n == Len(sessions)
        bad == {i \in 1..n : ParseTimestamp(sessions[i].started_at).raised # "none"}
        hourOf(i) == HourOf(sessions[i].started_at.at)
        hours == FirstOccurrences([i \in 1..n |-> hourOf(i)])
        at(h) == SelectSeq(sessions, LAMBDA x : HourOf(x.started_at.at) = h)
        duration(h) == SumSeq([i \in 1..Len(at(h)) |-> at(h)[i].duration_minutes])
        interruptions(h) == SumSeq([i \in 1..Len(at(h)) |-> at(h)[i].interruption_count])
        ratio(h) == Rat(duration(h), IF interruptions(h) > 1 THEN interruptions(h) ELSE 1)
        best_hours == Take(StableSort(hours, LAMBDA x, y : RLess(ratio(y), ratio(x))), 3)
    IN  IF sessions = <<>> THEN Generated(<<>>)
        ELSE IF bad # {} THEN Failed("ValueError")
        ELSE Generated(<<[suggestion_type |-> "schedule_optimization",
                          priority_score |-> 85,
                          context_data |-> [peak_hours |-> best_hours,
                                            productivity_score |-> ratio(best_hours[1])]]>>)

\* t.get("status") not in ["completed", "cancelled"] and priority in urgent, high
IncompleteHighPriority(t) ==
    /\ t.status \notin {"completed", "cancelled"}
    /\ Lower(IF t.priority = NoKey THEN "medium" ELSE t.priority) \in {"urgent", "high"}

\* t.get("due_date") and fromisoformat(due_date.replace("Z", "+00:00")) < datetime.now():
\* a missing due date is skipped unparsed; an aware one cannot be ordered against now().
OverdueOutcome(t) ==
    LET parsed == ParseTimestamp(t.due_date)
    IN  IF t.due_date.form = "missing" THEN "no"
        ELSE IF parsed.raised # "none" THEN parsed.raised
        ELSE IF parsed.aware THEN "TypeError"
        ELSE IF parsed.at < Now THEN "yes"
        ELSE "no"

\* _generate_task_prioritization_suggestions: priority_score 0.95.
generate_task_prioritization_suggestions(ts) ==
    LET incomplete_high_priority == SelectSeq(ts, IncompleteHighPriority)
        n == Len(incomplete_high_priority)
        bad == {i \in 1..n :
                   OverdueOutcome(incomplete_high_priority[i]) \in {"ValueError", "TypeError"}}
        overdue == SelectSeq(incomplete_high_priority, LAMBDA t : OverdueOutcome(t) = "yes")
        shown == Take(overdue, 3)
    IN  IF bad # {}
        THEN Failed(OverdueOutcome(
                 incomplete_high_priority[CHOOSE i \in bad : \A j \in bad : i <= j]))
        ELSE IF overdue = <<>> THEN Generated(<<>>)
        ELSE Generated(<<[suggestion_type |-> "task_prioritization",
                          priority_score |-> 95,
                          context_data |-> [overdue_count |-> Len(overdue),
                                            tasks |-> [i \in 1..Len(shown) |-> shown[i].title]]]>>)

\* _generate_break_timing_suggestions: priority_score 0.75.
generate_break_timing_suggestions(sessions) ==
    LET interrupted == SelectSeq(sessions, LAMBDA x : x.interruption_count > 0)
        k == Len(interrupted)
        avg_duration == Mean([i \in 1..k |-> interrupted[i].duration_minutes])
        avg_interruptions == Mean([i \in 1..k |-> interrupted[i].interruption_count])
    IN  IF interrupted # <<>> /\ RLess(RInt(3), avg_interruptions)
           /\ RLess(RInt(50), avg_duration)
        THEN <<[suggestion_type |-> "break_timing",
                priority_score |-> 75,
                context_data |-> [avg_duration |-> avg_duration,
                                  avg_interruptions |-> avg_interruptions]]>>
        ELSE <<>>

\* _generate_duration_suggestions: priority_score 0.70.
generate_duration_suggestions(sessions) ==
    LET successful == SelectSeq(sessions, LAMBDA x :
                          x.interruption_count <= 1 /\ x.duration_minutes >= 30)
        optimal_durations == [i \in 1..Len(successful) |-> successful[i].duration_minutes]
    IN  IF successful # <<>>
        THEN <<[suggestion_type |-> "focus_duration",
                priority_score |-> 70,
                context_data |-> [optimal_duration |-> Median(optimal_durations),
                                  sample_size |-> Len(successful)]]>>
        ELSE <<>>

\* _generate_pattern_suggestions: the most frequent category among the patterns
\* with distraction_score > 0.7 (scores in tenths); priority_score 0.80.
generate_pattern_suggestions(patterns) ==
    LET high == SelectSeq(patterns, LAMBDA a : a.distraction_score > 7)
        categoryOf(a) == IF a.activity_category = NoKey THEN "unknown" ELSE a.activity_category
        cats == FirstOccurrences([i \in 1..Len(high) |-> categoryOf(high[i])])
        count(c) == Cardinality({i \in 1..Len(high) : categoryOf(high[i]) = c})
        top == CHOOSE k \in 1..Len(cats) :
                   /\ \A j \in 1..Len(cats) : count(cats[j]) <= count(cats[k])
                   /\ \A j \in 1..(k - 1) : count(cats[j]) < count(cats[k])
    IN  IF high # <<>>
        THEN <<[suggestion_type |-> "distraction_management",
                priority_score |-> 80,
                context_data |-> [distraction_type |-> cats[top],
                                  frequency |-> count(cats[top])]]>>
        ELSE <<>>

\* suggestions.sort(key=lambda x: x.get("priority_score", 0), reverse=True)
SortSuggestionsAscending(list) ==
    StableSort(list, LAMBDA x, y : x.priority_score < y.priority_score)

SortSuggestions(list) == SortedDesc(list, LAMBDA x : x.priority_score)

NoSuggestions == [status |-> "none"]
Returned(list) == [status |-> "returned", list |-> list]

generate_suggestions(sessions, ts, patterns) ==
    LET schedule_suggestions == generate_schedule_suggestions(sessions)
        task_suggestions == generate_task_prioritization_suggestions(ts)
        collected ==
            schedule_suggestions.list \o task_suggestions.list
                \o generate_break_timing_suggestions(sessions)
                \o generate_duration_suggestions(sessions)
                \o generate_pattern_suggestions(patterns)
    IN  IF schedule_suggestions.raised # "none" THEN Raised(schedule_suggestions.raised)
        ELSE IF task_suggestions.raised # "none" THEN Raised(task_suggestions.raised)
        ELSE Returned(Take(SortSuggestions(collected), 10))

\* The sessions, tasks and activity patterns a caller may send.
SessionRecords ==
    {[started_at |-> NaiveTs(Now - 3 * SecondsPerHour), duration_minutes |-> 60,
      interruption_count |-> 0],
     [started_at |-> NaiveTs(Now - 3 * SecondsPerHour), duration_minutes |-> 90,
      interruption_count |-> 5],
     [started_at |-> ZuluTs(Now - 8 * SecondsPerHour), duration_minutes |-> 20,
      interruption_count |-> 2],
     [started_at |-> NaiveTs(Now - 30 * SecondsPerHour), duration_minutes |-> 45,
      interruption_count |-> 1],
     [started_at |-> GarbageTs, duration_minutes |-> 60, interruption_count |-> 0]}

SuggestionTaskRecords ==
    {[title |-> "ship", status |-> NoKey, priority |-> "HIGH",
      due_date |-> NaiveTs(Now - SecondsPerHour)],
     [title |-> "plan", status |-> "pending", priority |-> "urgent",
      due_date |-> NaiveTs(Now + SecondsPerHour)],
     [title |-> "call", status |-> "pending", priority |-> "high",
      due_date |-> ZuluTs(Now - SecondsPerHour)],
     [title |-> "done", status |-> "completed", priority |-> "high",
      due_date |-> GarbageTs],
     [title |-> "tidy", status |-> "pending", priority |-> NoKey,
      due_date |-> NaiveTs(Now - SecondsPerHour)],
     [title |-> "idea", status |-> "pending", priority |-> "high",
      due_date |-> MissingTs]}

PatternRecords ==
    {[activity_category |-> "social", distraction_score |-> 8],
     [activity_category |-> NoKey, distraction_score |-> 9],
     [activity_category |-> "news", distraction_score |-> 7]}

SuggestionsIdle ==
    /\ focus_sessions = <<>>
    /\ activity_patterns = <<>>
    /\ suggestions = NoSuggestions

----------------------------------------------------------------------------
(* FocusCoach *)

\* A task record handed to the coach.  estimated_minutes is a missing key, an
\* explicit None (what the route's TaskSummary model gives an unspecified
\* estimate) or an integer; due_date is a timestamp string or a missing key.
NoEstimate == [kind |-> "missing", value |-> 0]
NullEstimate == [kind |-> "none", value |-> 0]
Estimate(m) == [kind |-> "int", value |-> m]

CoachTask(id, priority, category, estimated, duration, due) ==
    [id |-> id, priority |-> priority, category |-> category,
     estimated_minutes |-> estimated, duration_minutes |-> duration, due_date |-> due]

\* task.get("category", "general")
CoachCategoryOf(t) == IF t.category = NoKey THEN "general" ELSE t.category

\* task.get("estimated_minutes", 0) or task.get("duration_minutes", 0); a record
\* without the duration_minutes key carries 0 there, the default of the lookup.
SummaryMinutesOf(t) ==
    IF t.estimated_minutes.kind = "int" /\ t.estimated_minutes.value # 0
    THEN t.estimated_minutes.value
    ELSE t.duration_minutes

EmptyDict == [k \in {} |-> 0]

\* The rule-based text of _generate_ai_summary, by the numbers it spells out; the
\* urgent and high sentences are there only for a positive count.
RuleBasedSummary(total, urgent, high, ncategories) ==
    [kind |-> "rule_based", total |-> total, urgent |-> urgent, high |-> high,
     categories |-> ncategories]

\* The backend handle of the instance: None, a backend that answers, or one whose
\* call raises.  On an exception the method calls itself with tasks = None while
\* self.openai_client is still set, so the retry raises in tasks[:10] and is
\* retried again, until the interpreter's recursion limit ends the call.
generate_ai_summary(client, total, urgent, high, ncategories) ==
    CASE client = "none" -> [status |-> "returned",
                             text |-> RuleBasedSummary(total, urgent, high, ncategories)]
      [] client = "answers" -> [status |-> "returned", text |-> [kind |-> "backend"]]
      [] OTHER -> Raised("RecursionError")

CountWhere(seq, Test(_)) == Cardinality({i \in 1..Len(seq) : Test(seq[i])})

\* What summarize_tasks answers for an empty list, with the zero-filled histogram
\* of the non-empty path in place of the empty one.
EmptySummaryZeroFilled ==
    [status |-> "returned",
     keys |-> {"summary", "total_tasks", "categories", "priority_breakdown"},
     summary |-> "No tasks to summarize.",
     total_tasks |-> 0,
     categories |-> EmptyDict,
     priority_breakdown |-> [p \in {"urgent", "high", "medium", "low"} |-> 0]]

\* The dictionary returned for an empty task list.
EmptySummary ==
    [status |-> "returned",
     keys |-> {"summary", "total_tasks", "categories", "priority_breakdown"},
     summary |-> "No tasks to summarize.",
     total_tasks |-> 0,
     categories |-> EmptyDict,
     priority_breakdown |-> EmptyDict]

summarize_tasks(client, ts) ==
    IF ts = <<>> THEN EmptySummary
    ELSE LET cats == {CoachCategoryOf(ts[i]) : i \in 1..Len(ts)}
             prios == {"urgent", "high", "medium", "low"}
                          \cup {TaskPriorityOf(ts[i]) : i \in 1..Len(ts)}
             categories == [c \in cats |->
                               CountWhere(ts, LAMBDA t : CoachCategoryOf(t) = c)]
             breakdown == [p \in prios |->
                               CountWhere(ts, LAMBDA t : TaskPriorityOf(t) = p)]
             total == SumSeq([i \in 1..Len(ts) |-> SummaryMinutesOf(ts[i])])
             text == generate_ai_summary(client, Len(ts), breakdown["urgent"],
                                         breakdown["high"], Cardinality(cats))
         IN  IF text.status = "raised" THEN text
             ELSE [status |-> "returned",
                   keys |-> {"summary", "total_tasks", "categories", "priority_breakdown",
                             "total_estimated_minutes", "average_task_minutes",
                             "model_version"},
                   summary |-> text.text,
                   total_tasks |-> Len(ts),
                   categories |-> categories,
                   priority_breakdown |-> breakdown,
                   total_estimated_minutes |-> total,
                   average_task_minutes |-> Rat(total, Len(ts))]

SecondsPerDay == 24 * SecondsPerHour

\* (due - datetime.now(due.tzinfo)).days: whole days, rounded down; None when the
\* key is missing or empty, and when parsing raised (the bare except passes).
NoDays == [known |-> FALSE, days |-> 0]
\* The whole days rounded toward zero instead of down.
DaysUntilDueTruncated(t) ==
    LET parsed == ParseTimestamp(t.due_date)
    IN  IF parsed.raised # "none" THEN NoDays
        ELSE LET delta == parsed.at - Now
             IN  [known |-> TRUE,
                  days |-> IF delta >= 0 THEN delta \div SecondsPerDay
                           ELSE -((-delta) \div SecondsPerDay)]

DaysUntilDue(t) ==
    LET parsed == ParseTimestamp(t.due_date)
    IN  IF parsed.raised # "none" THEN NoDays
        ELSE LET delta == parsed.at - Now
             IN  [known |-> TRUE,
                  days |-> IF delta >= 0 THEN delta \div SecondsPerDay
                           ELSE -((-delta + SecondsPerDay - 1) \div SecondsPerDay)]

priority_order == [urgent |-> 4, high |-> 3, medium |-> 2, low |-> 1]

DueBonus(until) ==
    IF ~until.known THEN 0
    ELSE IF until.days < 0 THEN 3
    ELSE IF until.days = 0 THEN 2
    ELSE IF until.days <= 1 THEN 1
    ELSE 0

task_score(t) ==
    LET priority == TaskPriorityOf(t)
        base_score == IF priority \in DOMAIN priority_order
                      THEN priority_order[priority] ELSE 2
    IN  base_score + DueBonus(DaysUntilDue(t))

\* An ascending sort read backwards: descending, but equal scores change places.
PrioritizeAscendingReversed(ts) ==
    LET ascending == StableSort(ts, LAMBDA x, y : task_score(x) < task_score(y))
    IN  [k \in 1..Len(ts) |-> ascending[Len(ts) + 1 - k]]

\* sorted(tasks, key=task_score, reverse=True): a new list, the argument untouched.
prioritize_tasks(ts) == StableSort(ts, LAMBDA x, y : task_score(x) > task_score(y))

\* user_preferences: None, or a dictionary that may carry the two keys read.
NoPreferences == [given |-> FALSE, peak_productivity_hours |-> <<>>, has_peak |-> FALSE,
                  preferred_focus_duration |-> 0]
Preferences(has_peak, peak, preferred) ==
    [given |-> TRUE, peak_productivity_hours |-> peak, has_peak |-> has_peak,
     preferred_focus_duration |-> preferred]

default_peak_hours == <<9, 10, 11, 14, 15, 16>>
\* user_prefs.get("peak_productivity_hours", [9, 10, 11, 14, 15, 16])
PeakHoursOf(prefs) ==
    IF prefs.given /\ prefs.has_peak THEN prefs.peak_productivity_hours
    ELSE default_peak_hours
\* user_prefs.get("preferred_focus_duration", 50); 0 stands for the missing key
PreferredDurationOf(prefs) ==
    IF prefs.given /\ prefs.preferred_focus_duration # 0
    THEN prefs.preferred_focus_duration ELSE 50

\* task.get("estimated_minutes", 30): the default only replaces a missing key.
ScheduleEstimateOf(t) ==
    IF t.estimated_minutes.kind = "missing" THEN Estimate(30) ELSE t.estimated_minutes

MinutesPerDay == 24 * 60
\* datetime.now().replace(hour=9, minute=0, ...), in minutes from today's midnight
DayStart == 9 * 60
ClockHour(clock) == (clock \div 60) % 24
\* current_time.replace(hour=h, minute=0): same day, the given hour
ReplaceHour(clock, h) == (clock \div MinutesPerDay) * MinutesPerDay + h * 60

SetMin(S) == CHOOSE x \in S : \A y \in S : x <= y

\* min([h for h in peak_hours if h > current_hour], default=peak_hours[0])
NextPeak(peak_hours, hour) ==
    LET later == {peak_hours[k] : k \in {j \in 1..Len(peak_hours) : peak_hours[j] > hour}}
    IN  IF later # {} THEN [raised |-> "none", hour |-> SetMin(later)]
        ELSE IF peak_hours = <<>> THEN [raised |-> "IndexError", hour |-> 0]
        ELSE [raised |-> "none", hour |-> peak_hours[1]]

\* The loop of _generate_schedule from task i on (i counts from 1 here, from 0
\* in the source), with the clock, the minutes and the entries so far.
RECURSIVE ScheduleFrom(_, _, _, _, _, _, _)
ScheduleFrom(ts, i, clock, total_scheduled, schedule, available_minutes, peak_hours) ==
    IF i > Len(ts)
    THEN [status |-> "returned", task_schedule |-> schedule,
          total_scheduled_minutes |-> total_scheduled]
    ELSE LET estimated == ScheduleEstimateOf(ts[i])
         IN  IF estimated.kind = "none" THEN Raised("TypeError")
             ELSE IF total_scheduled + estimated.value > available_minutes
             THEN [status |-> "returned", task_schedule |-> schedule,
                   total_scheduled_minutes |-> total_scheduled]
             ELSE LET snap == ClockHour(clock) \notin {peak_hours[k] : k \in 1..Len(peak_hours)}
                                  /\ i > 1
                      next == NextPeak(peak_hours, ClockHour(clock))
                      at == IF snap THEN ReplaceHour(clock, next.hour) ELSE clock
                      entry == [task_id |-> ts[i].id,
                                scheduled_time |-> at,
                                estimated_minutes |-> estimated.value,
                                priority |-> IF ts[i].priority = NoKey THEN "medium"
                                             ELSE ts[i].priority,
                                order |-> i]
                  IN  IF snap /\ next.raised # "none" THEN Raised(next.raised)
                      ELSE ScheduleFrom(ts, i + 1, at + estimated.value + 5,
                                        total_scheduled + estimated.value,
                                        Append(schedule, entry),
                                        available_minutes, peak_hours)

\* The loop leaving on total_scheduled + estimated >= available_minutes.
GenerateScheduleRefusingExactFit(ts, available_minutes, prefs) ==
    ScheduleFrom(ts, 1, DayStart, 0, <<>>, available_minutes - 1, PeakHoursOf(prefs))

generate_schedule(ts, available_minutes, prefs) ==
    ScheduleFrom(ts, 1, DayStart, 0, <<>>, available_minutes, PeakHoursOf(prefs))

\* The strategy text, by the sentences it is joined from.
generate_focus_strategy(ts, prefs) ==
    LET high_priority_count ==
            CountWhere(ts, LAMBDA t : TaskPriorityOf(t) \in {"urgent", "high"})
        estimates == [i \in 1..Len(ts) |-> ScheduleEstimateOf(ts[i])]
        avg_duration ==
            IF ts = <<>> THEN RInt(30)
            ELSE Rat(SumSeq([i \in 1..Len(ts) |-> estimates[i].value]), Len(ts))
    IN  IF \E i \in 1..Len(ts) : estimates[i].kind = "none" THEN Raised("TypeError")
        ELSE [status |-> "returned",
              priority_first |-> 2 * high_priority_count > Len(ts),
              avg_duration |-> avg_duration,
              break_down |-> RLess(RInt(60), avg_duration),
              block_minutes |-> PreferredDurationOf(prefs)]

\* available_hours or 8: None and 0 both give 8.
NoHours == [given |-> FALSE, value |-> 0]
Hours(h) == [given |-> TRUE, value |-> h]
AvailableHoursOf(hours) ==
    IF ~hours.given \/ hours.value = 0 THEN 8 ELSE hours.value

\* {"error": "No tasks provided for focus plan generation"}
NoTasksError == [status |-> "returned", keys |-> {"error"}]

\* The dictionary generate_focus_plan returns, from the parts it computed; an
\* exception raised while computing a part ends the call.
PlanOf(ts, schedule, strategy, tasks_summary) ==
    IF schedule.status = "raised" THEN schedule
    ELSE IF strategy.status = "raised" THEN strategy
    ELSE IF tasks_summary.status = "raised" THEN tasks_summary
    ELSE [status |-> "returned",
          keys |-> {"plan_type", "title", "description", "tasks_summary",
                    "recommended_schedule", "focus_strategy",
                    "estimated_total_minutes", "status", "created_at",
                    "model_version"},
          task_count |-> Len(ts),
          tasks_summary |-> tasks_summary,
          recommended_schedule |-> schedule,
          focus_strategy |-> strategy,
          estimated_total_minutes |->
              SumSeq([k \in 1..Len(schedule.task_schedule) |->
                         schedule.task_schedule[k].estimated_minutes])]

generate_focus_plan(client, ts, prefs, hours) ==
    IF ts = <<>> THEN NoTasksError
    ELSE LET available_minutes == AvailableHoursOf(hours) * 60
             sorted_tasks == prioritize_tasks(ts)
             schedule == generate_schedule(sorted_tasks, available_minutes, prefs)
             strategy == generate_focus_strategy(sorted_tasks, prefs)
         IN  PlanOf(ts, schedule, strategy, summarize_tasks(client, ts))

\* Requests of the model.
OverdueTs == NaiveTs(Now - SecondsPerHour)
DueTodayTs == NaiveTs(Now + 5 * SecondsPerHour)
DueTomorrowTs == ZuluTs(Now + 30 * SecondsPerHour)
DueLaterTs == NaiveTs(Now + 50 * SecondsPerHour)
CoachDueDates == {MissingTs, GarbageTs, OverdueTs, DueTodayTs, DueTomorrowTs, DueLaterTs}
CoachPriorities == {NoKey, "urgent", "HIGH", "low", "someday"}

CoachTaskRecords ==
    {CoachTask("t", NoKey, NoKey, Estimate(30), 0, d) : d \in CoachDueDates}
    \cup {CoachTask("t", p, NoKey, Estimate(30), 0, MissingTs) : p \in CoachPriorities}
    \cup {CoachTask("t", "low", NoKey, Estimate(30), 0, OverdueTs),
          CoachTask("t", NoKey, "work", NoEstimate, 20, MissingTs),
          CoachTask("t", NoKey, NoKey, NullEstimate, 0, MissingTs),
          CoachTask("t", NoKey, "work", Estimate(300), 0, MissingTs),
          CoachTask("t", "urgent", NoKey, Estimate(90), 0, MissingTs)}

PreferenceChoices ==
    {NoPreferences, Preferences(TRUE, <<14>>, 25), Preferences(TRUE, <<9>>, 0),
     Preferences(TRUE, <<>>, 0)}
HoursChoices == {NoHours, Hours(0), Hours(1)}
BackendChoices == {"none", "answers", "raises"}

NoSummary == [status |-> "none"]
NoPlan == [status |-> "none"]

CoachIdle ==
    /\ openai_client = "none"
    /\ user_preferences = NoPreferences
    /\ available_hours = NoHours
    /\ summary = NoSummary
    /\ plan = NoPlan

----------------------------------------------------------------------------
(* DistractionDetector *)

\* self.distraction_categories, weights in tenths.
distraction_categories ==
    [communication |-> 8, entertainment |-> 9, social |-> 7, news |-> 5, work |-> 1]

\* self.distraction_categories.get(category, {}).get("weight", 0.5), in tenths
WeightOf(category) ==
    IF category \in DOMAIN distraction_categories
    THEN distraction_categories[category]
    ELSE 5

\* activity.get("activity_category", "unknown").lower()
CategoryOf(a) ==
    Lower(IF a.activity_category = NoKey THEN "unknown" ELSE a.activity_category)

\* a.get("activity_category", "").lower() of the peak-hour count
PeakCategoryOf(a) ==
    Lower(IF a.activity_category = NoKey THEN "" ELSE a.activity_category)

\* What one activity adds to distraction_duration (tenths of a second).
DistractionContributionNegated(duration, weight) ==
    IF weight > 5 THEN 0 - duration * weight ELSE 0

DistractionContribution(duration, weight) ==
    IF weight > 5 THEN duration * weight ELSE 0

\* min(overall_score, 1.0)
ClampOverall(score) == RMin(score, RInt(1))

\* distraction_duration / total_duration with no test of the denominator.
ScoreOfUnguarded(distraction_duration, total_duration) ==
    Rat(distraction_duration, 10 * total_duration)

\* distraction_duration / total_duration if total_duration > 0 else 0.0, the
\* distraction duration being in tenths of a second.
ScoreOf(distraction_duration, total_duration) ==
    IF total_duration > 0 THEN Rat(distraction_duration, 10 * total_duration) ELSE RInt(0)

calculate_distraction_scores(acts) ==
    LET n == Len(acts)
        total_duration == SumSeq([i \in 1..n |-> acts[i].duration_seconds])
        distraction_duration ==
            SumSeq([i \in 1..n |->
                DistractionContribution(acts[i].duration_seconds, WeightOf(CategoryOf(acts[i])))])
        cats == {CategoryOf(acts[i]) : i \in 1..n}
        of(c) == SelectSeq(acts, LAMBDA a : CategoryOf(a) = c)
        catTotal(c) == SumSeq([i \in 1..Len(of(c)) |-> of(c)[i].duration_seconds])
        catDistraction(c) ==
            SumSeq([i \in 1..Len(of(c)) |-> of(c)[i].duration_seconds * WeightOf(c)])
        overall_score == ScoreOf(distraction_duration, total_duration)
    IN  [overall_distraction_score |-> ClampOverall(overall_score),
         by_category |-> [c \in cats |->
             [count |-> Len(of(c)),
              total_duration |-> catTotal(c),
              distraction_duration |-> catDistraction(c),
              avg_score |-> ScoreOf(catDistraction(c), catTotal(c))]],
         total_duration_seconds |-> total_duration,
         distraction_duration_seconds |-> distraction_duration]

\* The hour with the most distracting activities, first encountered on ties.
PeakDistractionHour(acts) ==
    LET n == Len(acts)
        hours == FirstOccurrences([i \in 1..n |-> HourOf(acts[i].timestamp.at)])
        count(h) == Cardinality({i \in 1..n :
                        /\ HourOf(acts[i].timestamp.at) = h
                        /\ WeightOf(PeakCategoryOf(acts[i])) > 5})
        best == CHOOSE k \in 1..Len(hours) :
                    /\ \A j \in 1..Len(hours) : count(hours[j]) <= count(hours[k])
                    /\ \A j \in 1..(k - 1) : count(hours[j]) < count(hours[k])
    IN  [type |-> "peak_distraction_hour", hour |-> hours[best],
         distraction_count |-> count(hours[best])]

\* if self.distraction_categories.get(category, {}).get("weight", 0.5) > 0.5
RecurringThresholdInclusive(category) == WeightOf(category) >= 5

RecurringThreshold(category) == WeightOf(category) > 5

\* Counter(...).most_common(3), then the distraction categories among them.
RecurringDistractions(acts) ==
    LET n == Len(acts)
        cats == FirstOccurrences([i \in 1..n |-> CategoryOf(acts[i])])
        freq(c) == Cardinality({i \in 1..n : CategoryOf(acts[i]) = c})
        most_common == Take(SortedDesc(cats, freq), 3)
        hits == SelectSeq(most_common, RecurringThreshold)
    IN  [k \in 1..Len(hits) |->
            [type |-> "recurring_distraction", category |-> hits[k],
             frequency |-> freq(hits[k])]]

\* Adjacent pairs less than 60 seconds apart; a pattern if more than 10%.
RapidSwitching(acts) ==
    LET n == Len(acts)
        rapid_switches == Cardinality({i \in 1..(n - 1) :
                              acts[i + 1].timestamp.at - acts[i].timestamp.at < 60})
    IN  IF 10 * rapid_switches > n
        THEN <<[type |-> "rapid_context_switching", switch_count |-> rapid_switches]>>
        ELSE <<>>

detect_patterns(acts) ==
    <<PeakDistractionHour(acts)>> \o RecurringDistractions(acts) \o RapidSwitching(acts)

\* The time-window filter: the first record whose timestamp cannot be parsed or
\* compared ends the call with that exception; otherwise the records kept.
FilterSkippingBad(acts, cutoff) ==
    [raised |-> "none",
     kept |-> SelectSeq(acts, LAMBDA a :
                  CompareWithCutoff(ParseTimestamp(a.timestamp), cutoff) = "keep")]

FilterRecent(acts, cutoff) ==
    LET outcome(i) == CompareWithCutoff(ParseTimestamp(acts[i].timestamp), cutoff)
        bad == {i \in 1..Len(acts) : outcome(i) \in {"ValueError", "TypeError"}}
    IN  IF bad # {}
        THEN [raised |-> outcome(CHOOSE i \in bad : \A j \in bad : i <= j), kept |-> <<>>]
        ELSE [raised |-> "none",
              kept |-> SelectSeq(acts, LAMBDA a :
                  CompareWithCutoff(ParseTimestamp(a.timestamp), cutoff) = "keep")]

NoReport == [status |-> "none"]
ErrorReport(msg) == [status |-> "error", error |-> msg, total_activities |-> 0]

\* The distraction_score an activity record carries: a number in hundredths, or
\* null (the route's default); a record may also lack the key.
NullScore == [null |-> TRUE, value |-> 0]
Score(v) == [null |-> FALSE, value |-> v]

\* a.get("distraction_score"): None for a missing key and for null
ExplicitScoreOf(a) ==
    IF "distraction_score" \in DOMAIN a THEN a.distraction_score ELSE NullScore

\* "if a.get("distraction_score")": None and 0.0 are both falsy.
ScoreIsCounted(a) == ~ExplicitScoreOf(a).null /\ ExplicitScoreOf(a).value # 0

SeqMax(xs) == CHOOSE x \in {xs[i] : i \in 1..Len(xs)} : \A i \in 1..Len(xs) : xs[i] <= x
SeqMin(xs) == CHOOSE x \in {xs[i] : i \in 1..Len(xs)} : \A i \in 1..Len(xs) : x <= xs[i]

\* Durations in seconds, scores in hundredths.
calculate_statistics(acts) ==
    LET durations == [i \in 1..Len(acts) |-> acts[i].duration_seconds]
        counted == SelectSeq(acts, ScoreIsCounted)
        scores == [i \in 1..Len(counted) |-> ExplicitScoreOf(counted[i]).value]
    IN  [total_activities |-> Len(acts),
         avg_duration_seconds |-> IF durations # <<>> THEN Mean(durations) ELSE RInt(0),
         median_duration_seconds |-> IF durations # <<>> THEN Median(durations) ELSE RInt(0),
         avg_distraction_score |-> IF scores # <<>> THEN Mean(scores) ELSE RInt(0),
         max_distraction_score |-> IF scores # <<>> THEN SeqMax(scores) ELSE 0,
         min_distraction_score |-> IF scores # <<>> THEN SeqMin(scores) ELSE 0]

\* What analyze_activity_patterns answers once the window filter has run, from
\* the scores and patterns computed on the records kept.
ReportOf(window, filtered, scores, patterns) ==
    IF filtered.raised # "none" THEN Raised(filtered.raised)
    ELSE IF filtered.kept = <<>>
    THEN ErrorReport("No recent activities in the specified time window")
    ELSE [status |-> "report",
          analysis_period_hours |-> window,
          total_activities |-> Len(filtered.kept),
          distraction_scores |-> scores,
          patterns |-> patterns,
          statistics |-> calculate_statistics(filtered.kept)]

analyze_activity_patterns(acts, window) ==
    IF acts = <<>> THEN ErrorReport("No activities provided for analysis")
    ELSE LET cutoff_time == Now - window * SecondsPerHour
             filtered == FilterRecent(acts, cutoff_time)
         IN  ReportOf(window, filtered,
                      calculate_distraction_scores(filtered.kept),
                      detect_patterns(filtered.kept))

\* The activity records a caller may send.
Categories == {"Entertainment", "social", "news", "work", NoKey}
Durations == {0, 600}
GoodTimestamps ==
    {NaiveTs(Now - 25 * SecondsPerHour), NaiveTs(Now - 24 * SecondsPerHour),
     NaiveTs(Now - 30), NaiveTs(Now)}
BadTimestamps ==
    {ZuluTs(Now - 25 * SecondsPerHour), ZuluTs(Now - 30), GarbageTs, MissingTs}
ActivityRecords ==
    [activity_category : Categories, duration_seconds : Durations, timestamp : GoodTimestamps]
    \cup [activity_category : {"work"}, duration_seconds : {600}, timestamp : BadTimestamps]
WindowChoices == {1, 24}

\* Recent activities of four categories, one of them a distraction, with a
\* score of zero, a positive score, a null score and no score key.
RecentActivity(category) ==
    [activity_category |-> category, duration_seconds |-> 600, timestamp |-> NaiveTs(Now - 30)]
Scored(a, score) ==
    [k \in DOMAIN a \cup {"distraction_score"} |->
        IF k = "distraction_score" THEN score ELSE a[k]]
ReportRecords ==
    {RecentActivity("work"),
     Scored(RecentActivity("news"), Score(0)),
     Scored(RecentActivity(NoKey), Score(80)),
     Scored(RecentActivity("social"), NullScore),
     Scored(RecentActivity("social"), Score(40))}

----------------------------------------------------------------------------
(* Concurrent invocations on the shared component instances *)

\* The fields of the module-level instances (ai_routes.py:17-20), written by
\* the constructors and by nothing else.
ConstructedInstances ==
    [distraction_categories |-> distraction_categories,
     base_estimates |-> base_estimates,
     model_version |-> "v1.0"]

\* What the caller's task list holds after a call sorted it in place.
TasksSortedInPlace(ts) == prioritize_tasks(ts)

\* What the caller's task list holds after _prioritize_tasks: sorted() builds a
\* new list and leaves its argument as it was.
TasksAfterPrioritize(ts) == ts

\* The lists the concurrent callers pass.
ConcurrentTaskLists ==
    {<<CoachTask("t", "low", NoKey, Estimate(30), 0, MissingTs),
       CoachTask("t", "urgent", NoKey, Estimate(90), 0, MissingTs)>>,
     <<CoachTask("t", NoKey, NoKey, Estimate(30), 0, DueLaterTs),
       CoachTask("t", "low", NoKey, Estimate(30), 0, OverdueTs)>>,
     <<CoachTask("t", NoKey, "work", Estimate(300), 0, MissingTs)>>,
     <<>>}
ConcurrentActivityLists ==
    {<<[activity_category |-> "social", duration_seconds |-> 600, timestamp |-> NaiveTs(Now)],
       [activity_category |-> "work", duration_seconds |-> 600, timestamp |-> NaiveTs(Now - 30)]>>,
     <<[activity_category |-> "news", duration_seconds |-> 600,
        timestamp |-> NaiveTs(Now - 25 * SecondsPerHour)]>>}
ConcurrentTask ==
    TaskOf("t", "coding", [title |-> <<"fix", "login">>, description |-> NoDescription,
                           priority |-> "high", tags |-> {}])
ConcurrentHistories ==
    {NoHistory,
     History(<<[type |-> "Coding", title |-> <<"fix", "login">>, priority |-> "high",
                tags |-> {}, actual_minutes |-> 60, duration_minutes |-> 0]>>)}

Operations ==
    {"generate_focus_plan", "summarize_tasks", "analyze_activity_patterns",
     "predict_task_duration"}
Invocations == 1..MaxCalls

IdleCall == [op |-> "none", phase |-> "idle"]
\* The first step of each operation.
FirstPhase(op) ==
    CASE op = "generate_focus_plan" -> "prioritize"
      [] op = "summarize_tasks" -> "summarize"
      [] op = "analyze_activity_patterns" -> "filter"
      [] OTHER -> "base"

\* The arguments as they were when the call was made.
ArgumentsNow ==
    [tasks |-> tasks, activities |-> activities, historical_data |-> historical_data]

ReturnedCall(c, result) == [op |-> c.op, phase |-> "returned", args |-> c.args, result |-> result]

ConcurrentIdle ==
    /\ calls = <<>>
    /\ instances = ConstructedInstances


----------------------------------------------------------------------------
(* One request at a time: the distraction analyzer *)

DetectorIdle ==
    /\ activities = <<>>
    /\ time_window_hours = 24
    /\ report = NoReport

DetectorInit ==
    /\ pc = "build"
    /\ activities = <<>>
    /\ time_window_hours \in WindowChoices
    /\ report = NoReport
    /\ PredictorIdle
    /\ SuggestionsIdle
    /\ CoachIdle
    /\ ConcurrentIdle

AddActivity ==
    /\ pc = "build"
    /\ Len(activities) < MaxActivities
    /\ \E a \in ActivityRecords : activities' = Append(activities, a)
    /\ UNCHANGED <<pc, time_window_hours, report, predictorVars, suggestionVars, coachVars, sharedVars>>

AnalyzeActivityPatterns ==
    /\ pc = "build"
    /\ report' = analyze_activity_patterns(activities, time_window_hours)
    /\ pc' = "done"
    /\ UNCHANGED <<activities, time_window_hours, predictorVars, suggestionVars, coachVars, sharedVars>>

NextDetectorRequest ==
    /\ pc = "done"
    /\ pc' = "build"
    /\ activities' = <<>>
    /\ report' = NoReport
    /\ time_window_hours' \in WindowChoices
    /\ UNCHANGED <<predictorVars, suggestionVars, coachVars, sharedVars>>

\* analyze_activity_patterns over lists of up to MaxReportActivities recent activities.
ReportInit ==
    /\ pc = "build"
    /\ activities = <<>>
    /\ time_window_hours = 24
    /\ report = NoReport
    /\ PredictorIdle
    /\ SuggestionsIdle
    /\ CoachIdle
    /\ ConcurrentIdle

AddReportActivity ==
    /\ pc = "build"
    /\ Len(activities) < MaxReportActivities
    /\ \E a \in ReportRecords : activities' = Append(activities, a)
    /\ UNCHANGED <<pc, time_window_hours, report, predictorVars, suggestionVars, coachVars, sharedVars>>

NextReportRequest ==
    /\ pc = "done"
    /\ pc' = "build"
    /\ activities' = <<>>
    /\ report' = NoReport
    /\ UNCHANGED <<time_window_hours, predictorVars, suggestionVars, coachVars, sharedVars>>

ReportNext == AddReportActivity \/ AnalyzeActivityPatterns \/ NextReportRequest

ReportSpec == ReportInit /\ [][ReportNext]_vars

DetectorNext == AddActivity \/ AnalyzeActivityPatterns \/ NextDetectorRequest

DetectorSpec == DetectorInit /\ [][DetectorNext]_vars

PredictorInit ==
    /\ pc = "build"
    /\ task \in TaskRecords
    /\ user_profile \in Profiles
    /\ historical_data \in {NoHistory, History(<<>>)}
    /\ prediction = NoPrediction
    /\ tasks = <<>>
    /\ predictions = <<>>
    /\ DetectorIdle
    /\ SuggestionsIdle
    /\ CoachIdle
    /\ ConcurrentIdle

AddHistoryRecord ==
    /\ pc = "build"
    /\ Len(historical_data.items) < MaxHistory
    /\ \E h \in HistoryRecords :
           historical_data' = History(Append(historical_data.items, h))
    /\ UNCHANGED <<pc, task, tasks, user_profile, prediction, predictions, detectorVars, suggestionVars, coachVars, sharedVars>>

PredictTaskDuration ==
    /\ pc = "build"
    /\ prediction' = predict_task_duration(task, historical_data, user_profile)
    /\ pc' = "done"
    /\ UNCHANGED <<task, tasks, historical_data, user_profile, predictions, detectorVars, suggestionVars, coachVars, sharedVars>>

NextPredictorRequest ==
    /\ pc = "done"
    /\ pc' = "build"
    /\ task' \in TaskRecords
    /\ user_profile' \in Profiles
    /\ historical_data' \in {NoHistory, History(<<>>)}
    /\ prediction' = NoPrediction
    /\ UNCHANGED <<tasks, predictions, detectorVars, suggestionVars, coachVars, sharedVars>>

PredictorNext == AddHistoryRecord \/ PredictTaskDuration \/ NextPredictorRequest

PredictorSpec == PredictorInit /\ [][PredictorNext]_vars

\* predict_task_duration over histories of up to MaxBlendHistory finished tasks.
BlendInit ==
    /\ pc = "build"
    /\ task \in BlendTasks
    /\ user_profile \in BlendProfiles
    /\ historical_data = History(<<>>)
    /\ prediction = NoPrediction
    /\ tasks = <<>>
    /\ predictions = <<>>
    /\ DetectorIdle
    /\ SuggestionsIdle
    /\ CoachIdle
    /\ ConcurrentIdle

AddBlendRecord ==
    /\ pc = "build"
    /\ Len(historical_data.items) < MaxBlendHistory
    /\ \E h \in BlendRecords :
           historical_data' = History(Append(historical_data.items, h))
    /\ UNCHANGED <<pc, task, tasks, user_profile, prediction, predictions, detectorVars, suggestionVars, coachVars, sharedVars>>

NextBlendRequest ==
    /\ pc = "done"
    /\ pc' = "build"
    /\ task' \in BlendTasks
    /\ user_profile' \in BlendProfiles
    /\ historical_data' = History(<<>>)
    /\ prediction' = NoPrediction
    /\ UNCHANGED <<tasks, predictions, detectorVars, suggestionVars, coachVars, sharedVars>>

BlendNext == AddBlendRecord \/ PredictTaskDuration \/ NextBlendRequest

BlendSpec == BlendInit /\ [][BlendNext]_vars

\* predict_task_duration over histories of up to MaxSimilarHistory similar tasks.
SimilarInit ==
    /\ pc = "build"
    /\ task = FixLoginTask
    /\ user_profile = NoProfile
    /\ historical_data = History(<<>>)
    /\ prediction = NoPrediction
    /\ tasks = <<>>
    /\ predictions = <<>>
    /\ DetectorIdle
    /\ SuggestionsIdle
    /\ CoachIdle
    /\ ConcurrentIdle

AddSimilarRecord ==
    /\ pc = "build"
    /\ Len(historical_data.items) < MaxSimilarHistory
    /\ \E h \in SimilarRecords :
           historical_data' = History(Append(historical_data.items, h))
    /\ UNCHANGED <<pc, task, tasks, user_profile, prediction, predictions, detectorVars, suggestionVars, coachVars, sharedVars>>

NextSimilarRequest ==
    /\ pc = "done"
    /\ pc' = "build"
    /\ historical_data' = History(<<>>)
    /\ prediction' = NoPrediction
    /\ UNCHANGED <<task, tasks, user_profile, predictions, detectorVars, suggestionVars, coachVars, sharedVars>>

SimilarNext == AddSimilarRecord \/ PredictTaskDuration \/ NextSimilarRequest

SimilarSpec == SimilarInit /\ [][SimilarNext]_vars

BatchInit ==
    /\ pc = "build"
    /\ tasks = <<>>
    /\ user_profile \in Profiles
    /\ historical_data = NoHistory
    /\ predictions = <<>>
    /\ task = NoTask
    /\ prediction = NoPrediction
    /\ DetectorIdle
    /\ SuggestionsIdle
    /\ CoachIdle
    /\ ConcurrentIdle

AddBatchTask ==
    /\ pc = "build"
    /\ Len(tasks) < MaxBatch
    /\ \E t \in BatchTaskRecords : tasks' = Append(tasks, t)
    /\ UNCHANGED <<pc, task, historical_data, user_profile, prediction, predictions,
                   detectorVars, suggestionVars, coachVars, sharedVars>>

AddBatchHistoryRecord ==
    /\ pc = "build"
    /\ Len(historical_data.items) < MaxBatchHistory
    /\ \E h \in HistoryRecords :
           historical_data' = History(Append(historical_data.items, h))
    /\ UNCHANGED <<pc, task, tasks, user_profile, prediction, predictions, detectorVars, suggestionVars, coachVars, sharedVars>>

BatchPredict ==
    /\ pc = "build"
    /\ predictions' = batch_predict(tasks, historical_data, user_profile)
    /\ pc' = "done"
    /\ UNCHANGED <<task, tasks, historical_data, user_profile, prediction, detectorVars,
                   suggestionVars, coachVars, sharedVars>>

NextBatchRequest ==
    /\ pc = "done"
    /\ pc' = "build"
    /\ tasks' = <<>>
    /\ user_profile' \in Profiles
    /\ historical_data' = NoHistory
    /\ predictions' = <<>>
    /\ UNCHANGED <<task, prediction, detectorVars, suggestionVars, coachVars, sharedVars>>

BatchNext == AddBatchTask \/ AddBatchHistoryRecord \/ BatchPredict \/ NextBatchRequest

BatchSpec == BatchInit /\ [][BatchNext]_vars

SuggestionsInit ==
    /\ pc = "build"
    /\ focus_sessions = <<>>
    /\ tasks = <<>>
    /\ activity_patterns = <<>>
    /\ suggestions = NoSuggestions
    /\ task = NoTask
    /\ historical_data = NoHistory
    /\ user_profile = NoProfile
    /\ prediction = NoPrediction
    /\ predictions = <<>>
    /\ DetectorIdle
    /\ CoachIdle
    /\ ConcurrentIdle

suggestionRest ==
    <<task, historical_data, user_profile, prediction, predictions, detectorVars, coachVars, sharedVars>>

AddFocusSession ==
    /\ pc = "build"
    /\ Len(focus_sessions) < MaxSessions
    /\ \E x \in SessionRecords : focus_sessions' = Append(focus_sessions, x)
    /\ UNCHANGED <<pc, tasks, activity_patterns, suggestions, suggestionRest>>

AddSuggestionTask ==
    /\ pc = "build"
    /\ Len(tasks) < MaxSuggestionTasks
    /\ \E t \in SuggestionTaskRecords : tasks' = Append(tasks, t)
    /\ UNCHANGED <<pc, focus_sessions, activity_patterns, suggestions, suggestionRest>>

AddActivityPattern ==
    /\ pc = "build"
    /\ Len(activity_patterns) < MaxPatterns
    /\ \E a \in PatternRecords : activity_patterns' = Append(activity_patterns, a)
    /\ UNCHANGED <<pc, focus_sessions, tasks, suggestions, suggestionRest>>

GenerateSuggestions ==
    /\ pc = "build"
    /\ suggestions' = generate_suggestions(focus_sessions, tasks, activity_patterns)
    /\ pc' = "done"
    /\ UNCHANGED <<focus_sessions, tasks, activity_patterns, suggestionRest>>

NextSuggestionsRequest ==
    /\ pc = "done"
    /\ pc' = "build"
    /\ focus_sessions' = <<>>
    /\ tasks' = <<>>
    /\ activity_patterns' = <<>>
    /\ suggestions' = NoSuggestions
    /\ UNCHANGED suggestionRest

SuggestionsNext ==
    \/ AddFocusSession
    \/ AddSuggestionTask
    \/ AddActivityPattern
    \/ GenerateSuggestions
    \/ NextSuggestionsRequest

SuggestionsSpec == SuggestionsInit /\ [][SuggestionsNext]_vars

CoachInit ==
    /\ pc = "build"
    /\ tasks = <<>>
    /\ openai_client \in BackendChoices
    /\ user_preferences \in PreferenceChoices
    /\ available_hours \in HoursChoices
    /\ summary = NoSummary
    /\ plan = NoPlan
    /\ task = NoTask
    /\ historical_data = NoHistory
    /\ user_profile = NoProfile
    /\ prediction = NoPrediction
    /\ predictions = <<>>
    /\ DetectorIdle
    /\ SuggestionsIdle
    /\ ConcurrentIdle

coachRest ==
    <<task, historical_data, user_profile, prediction, predictions, detectorVars,
      suggestionVars, openai_client, sharedVars>>

AddCoachTask ==
    /\ pc = "build"
    /\ Len(tasks) < MaxCoachTasks
    /\ \E t \in CoachTaskRecords : tasks' = Append(tasks, t)
    /\ UNCHANGED <<pc, user_preferences, available_hours, summary, plan, coachRest>>

SummarizeTasks ==
    /\ pc = "build"
    /\ summary' = summarize_tasks(openai_client, tasks)
    /\ pc' = "done"
    /\ UNCHANGED <<tasks, user_preferences, available_hours, plan, coachRest>>

GenerateFocusPlan ==
    /\ pc = "build"
    /\ plan' = generate_focus_plan(openai_client, tasks, user_preferences, available_hours)
    /\ pc' = "done"
    /\ UNCHANGED <<tasks, user_preferences, available_hours, summary, coachRest>>

NextCoachRequest ==
    /\ pc = "done"
    /\ pc' = "build"
    /\ tasks' = <<>>
    /\ user_preferences' \in PreferenceChoices
    /\ available_hours' \in HoursChoices
    /\ summary' = NoSummary
    /\ plan' = NoPlan
    /\ UNCHANGED coachRest

CoachNext == AddCoachTask \/ SummarizeTasks \/ GenerateFocusPlan \/ NextCoachRequest

CoachSpec == CoachInit /\ [][CoachNext]_vars

----------------------------------------------------------------------------
(* The engine as a whole: one request at a time, to any of the analyzer, the
   predictor and the coach *)

EngineInit == DetectorInit \/ PredictorInit \/ CoachInit \/ SuggestionsInit

\* A component takes a request when no request of another component is open.
PredictorQuiet ==
    /\ task = NoTask
    /\ historical_data = NoHistory
    /\ user_profile = NoProfile
    /\ prediction = NoPrediction
AnalyzerFree == PredictorIdle /\ CoachIdle /\ SuggestionsIdle
PredictorFree == DetectorIdle /\ CoachIdle /\ SuggestionsIdle /\ tasks = <<>>
CoachFree ==
    /\ DetectorIdle
    /\ PredictorQuiet
    /\ SuggestionsIdle
    /\ \A i \in 1..Len(tasks) : tasks[i] \in CoachTaskRecords
SuggestionsFree ==
    /\ DetectorIdle
    /\ PredictorQuiet
    /\ CoachIdle
    /\ \A i \in 1..Len(tasks) : tasks[i] \in SuggestionTaskRecords

EngineNext ==
    \/ (AnalyzerFree /\ DetectorNext)
    \/ (PredictorFree /\ PredictorNext)
    \/ (CoachFree /\ CoachNext)
    \/ (SuggestionsFree /\ SuggestionsNext)

EngineSpec == EngineInit /\ [][EngineNext]_vars

----------------------------------------------------------------------------
(* Invocations interleaved on the shared instances *)

ConcurrentInit ==
    /\ pc = "build"
    /\ calls = [i \in Invocations |-> IdleCall]
    /\ instances = ConstructedInstances
    /\ tasks \in ConcurrentTaskLists
    /\ activities \in ConcurrentActivityLists
    /\ task = ConcurrentTask
    /\ historical_data \in ConcurrentHistories
    /\ time_window_hours = 24
    /\ report = NoReport
    /\ user_profile = NoProfile
    /\ prediction = NoPrediction
    /\ predictions = <<>>
    /\ SuggestionsIdle
    /\ openai_client = "none"
    /\ user_preferences = NoPreferences
    /\ available_hours = NoHours
    /\ summary = NoSummary
    /\ plan = NoPlan

\* What no step of any invocation assigns: the instances' fields, the arguments
\* other than the task list, and the state of the sequential machines.
concurrentRest ==
    <<pc, instances, activities, time_window_hours, report, task, historical_data,
      user_profile, prediction, predictions, suggestionVars, coachVars>>

\* Invocation i moves to the given phase with the given local values.
Advance(i, c) == calls' = [calls EXCEPT ![i] = c]
At(i, op, phase) == calls[i].op = op /\ calls[i].phase = phase
Local(c, phase, acc) == [op |-> c.op, phase |-> phase, args |-> c.args, acc |-> acc]

StartCall ==
    \E i \in Invocations, op \in Operations :
        /\ calls[i].phase = "idle"
        /\ Advance(i, [op |-> op, phase |-> FirstPhase(op), args |-> ArgumentsNow,
                       acc |-> <<>>])
        /\ UNCHANGED <<tasks, concurrentRest>>

\* generate_focus_plan, lines 89-99: the empty check and _prioritize_tasks.
PrioritizeStep ==
    \E i \in Invocations :
        /\ At(i, "generate_focus_plan", "prioritize")
        /\ IF tasks = <<>>
           THEN Advance(i, ReturnedCall(calls[i], NoTasksError))
           ELSE Advance(i, Local(calls[i], "schedule", [sorted_tasks |-> prioritize_tasks(tasks)]))
        /\ tasks' = TasksAfterPrioritize(tasks)
        /\ UNCHANGED concurrentRest

\* lines 102-106: _generate_schedule on the sorted copy.
ScheduleStep ==
    \E i \in Invocations :
        /\ At(i, "generate_focus_plan", "schedule")
        /\ LET acc == calls[i].acc
               schedule == generate_schedule(acc.sorted_tasks,
                               AvailableHoursOf(available_hours) * 60, user_preferences)
           IN  Advance(i, Local(calls[i], "strategy",
                   [sorted_tasks |-> acc.sorted_tasks, schedule |-> schedule]))
        /\ UNCHANGED <<tasks, concurrentRest>>

\* lines 109-113: _generate_focus_strategy on the sorted copy.
StrategyStep ==
    \E i \in Invocations :
        /\ At(i, "generate_focus_plan", "strategy")
        /\ LET acc == calls[i].acc
           IN  Advance(i, Local(calls[i], "summarize",
                   [schedule |-> acc.schedule,
                    strategy |-> generate_focus_strategy(acc.sorted_tasks, user_preferences)]))
        /\ UNCHANGED <<tasks, concurrentRest>>

\* lines 121-132: the nested summarize_tasks(tasks) reads the caller's list again.
PlanSummaryStep ==
    \E i \in Invocations :
        /\ At(i, "generate_focus_plan", "summarize")
        /\ LET acc == calls[i].acc
           IN  Advance(i, ReturnedCall(calls[i],
                   PlanOf(tasks, acc.schedule, acc.strategy,
                          summarize_tasks(openai_client, tasks))))
        /\ UNCHANGED <<tasks, concurrentRest>>

SummarizeStep ==
    \E i \in Invocations :
        /\ At(i, "summarize_tasks", "summarize")
        /\ Advance(i, ReturnedCall(calls[i], summarize_tasks(openai_client, tasks)))
        /\ UNCHANGED <<tasks, concurrentRest>>

\* analyze_activity_patterns, lines 47-64: the empty check and the window filter.
FilterStep ==
    \E i \in Invocations :
        /\ At(i, "analyze_activity_patterns", "filter")
        /\ IF activities = <<>>
           THEN Advance(i, ReturnedCall(calls[i],
                    ErrorReport("No activities provided for analysis")))
           ELSE LET filtered == FilterRecent(activities, Now - time_window_hours * SecondsPerHour)
                IN  IF filtered.raised # "none" \/ filtered.kept = <<>>
                    THEN Advance(i, ReturnedCall(calls[i],
                             ReportOf(time_window_hours, filtered, <<>>, <<>>)))
                    ELSE Advance(i, Local(calls[i], "scores", [filtered |-> filtered]))
        /\ UNCHANGED <<tasks, concurrentRest>>

\* line 67: _calculate_distraction_scores reads self.distraction_categories.
ScoresStep ==
    \E i \in Invocations :
        /\ At(i, "analyze_activity_patterns", "scores")
        /\ LET acc == calls[i].acc
           IN  Advance(i, Local(calls[i], "patterns",
                   [filtered |-> acc.filtered,
                    scores |-> calculate_distraction_scores(acc.filtered.kept)]))
        /\ UNCHANGED <<tasks, concurrentRest>>

\* lines 70-87: _detect_patterns and the report.
PatternsStep ==
    \E i \in Invocations :
        /\ At(i, "analyze_activity_patterns", "patterns")
        /\ LET acc == calls[i].acc
           IN  Advance(i, ReturnedCall(calls[i],
                   ReportOf(time_window_hours, acc.filtered, acc.scores,
                            detect_patterns(acc.filtered.kept))))
        /\ UNCHANGED <<tasks, concurrentRest>>

\* predict_task_duration, lines 54-57: features and the base estimate, read
\* from self.base_estimates.
BaseStep ==
    \E i \in Invocations :
        /\ At(i, "predict_task_duration", "base")
        /\ LET features == extract_features(task)
           IN  Advance(i, Local(calls[i], "history",
                   [features |-> features,
                    base_estimate |-> get_base_estimate(task, features)]))
        /\ UNCHANGED <<tasks, concurrentRest>>

\* lines 60-70: the history and profile adjustments read the caller's history.
HistoryStep ==
    \E i \in Invocations :
        /\ At(i, "predict_task_duration", "history")
        /\ LET acc == calls[i].acc
               adjusted == adjust_with_history(acc.base_estimate, task, historical_data)
           IN  Advance(i, Local(calls[i], "confidence",
                   [features |-> acc.features, base_estimate |-> acc.base_estimate,
                    final_estimate |-> adjust_with_profile(adjusted, user_profile)]))
        /\ UNCHANGED <<tasks, concurrentRest>>

\* lines 73-88: the confidence reads the history again; the result is returned.
ConfidenceStep ==
    \E i \in Invocations :
        /\ At(i, "predict_task_duration", "confidence")
        /\ LET acc == calls[i].acc
           IN  Advance(i, ReturnedCall(calls[i],
                   PredictionOf(task, acc.features, acc.base_estimate, acc.final_estimate,
                                calculate_confidence(task, historical_data, user_profile))))
        /\ UNCHANGED <<tasks, concurrentRest>>

\* The caller takes the result; the slot is free for another invocation.
TakeResult ==
    \E i \in Invocations :
        /\ calls[i].phase = "returned"
        /\ Advance(i, IdleCall)
        /\ UNCHANGED <<tasks, concurrentRest>>

ConcurrentNext ==
    \/ StartCall
    \/ PrioritizeStep \/ ScheduleStep \/ StrategyStep \/ PlanSummaryStep
    \/ SummarizeStep
    \/ FilterStep \/ ScoresStep \/ PatternsStep
    \/ BaseStep \/ HistoryStep \/ ConfidenceStep
    \/ TakeResult

ConcurrentSpec == ConcurrentInit /\ [][ConcurrentNext]_vars

----------------------------------------------------------------------------
(* Properties of the distraction analyzer, checked under DetectorSpec *)

Reported == pc = "done" /\ report.status = "report"
CutoffOf(window) == Now - window * SecondsPerHour
Parseable(a) == a.timestamp.form \in {"naive", "zulu"}
Stale(a) == Parseable(a) /\ a.timestamp.at < CutoffOf(time_window_hours)
Patterns(type) ==
    {k \in 1..Len(report.patterns) : report.patterns[k].type = type}

\* C1: whenever analyze_activity_patterns returns a report (durations are
\* non-negative, timestamps parseable), the overall distraction score lies in [0, 1].
C1_OverallScoreInUnitInterval ==
    Reported =>
        LET score == report.distraction_scores.overall_distraction_score
        IN  RLeq(RInt(0), score) /\ RLeq(score, RInt(1))

\* A report over distracting and non-distracting time: a score strictly inside (0, 1).
C1_Witness ==
    /\ Reported
    /\ report.total_activities = 2
    /\ RLess(RInt(0), report.distraction_scores.overall_distraction_score)
    /\ RLess(report.distraction_scores.overall_distraction_score, RInt(1))

\* C2: an empty activity list, and a non-empty list whose timestamps are all
\* earlier than now - time_window_hours, both return (not raise) a result with an
\* error field and total_activities = 0.
C2_EmptyOrStaleYieldsError ==
    (pc = "done" /\ \A i \in 1..Len(activities) : Stale(activities[i]))
        => (report.status = "error" /\ report.total_activities = 0)

\* C3: one record with a missing or unparseable timestamp, wherever it sits in
\* the list, makes the whole call raise; no report is computed from the others.
C3_BadTimestampFailsCall ==
    (pc = "done" /\ \E i \in 1..Len(activities) : ~Parseable(activities[i]))
        => report.status = "raised"

\* The bad record sits last, after a record inside the window, and the call raised.
C3_Witness ==
    /\ pc = "done"
    /\ Len(activities) = 2
    /\ activities[1].timestamp = NaiveTs(Now)
    /\ ~Parseable(activities[2])
    /\ report.status = "raised"

\* C4: a timestamp with a trailing Z is taken as a UTC instant: the call does not
\* fail, and the activity is kept exactly when the instant is at or after the cutoff.
C4_ZuluTimestampAccepted ==
    (/\ pc = "done"
     /\ \A i \in 1..Len(activities) : Parseable(activities[i])
     /\ \E i \in 1..Len(activities) : activities[i].timestamp.form = "zulu")
        => /\ report.status \in {"error", "report"}
           /\ report.total_activities =
                Cardinality({i \in 1..Len(activities) :
                    activities[i].timestamp.at >= CutoffOf(time_window_hours)})

\* C5: no recurring_distraction pattern names a category of weight <= 0.5
\* (unknown categories included), however frequent the category is.
C5_RecurringOnlyDistractions ==
    Reported =>
        \A k \in Patterns("recurring_distraction") :
            WeightOf(report.patterns[k].category) > 5

\* Two analysed activities, the first-counted category of weight <= 0.5 and the
\* other a distraction: only the distraction is reported as recurring.
C5_Witness ==
    /\ Reported
    /\ Len(activities) = 2
    /\ report.total_activities = 2
    /\ WeightOf(CategoryOf(activities[1])) <= 5
    /\ Cardinality(Patterns("recurring_distraction")) = 1
    /\ \A k \in Patterns("recurring_distraction") :
           report.patterns[k].category = CategoryOf(activities[2])

----------------------------------------------------------------------------
(* Properties of the duration predictor, checked under PredictorSpec and BatchSpec *)

Predicted == pc = "done" /\ prediction # NoPrediction
TitleHasComplexityKeyword(t) ==
    \E i \in 1..Len(t.title) : KeywordsIn(TitleWords(t)[i]) # {}

\* C6: with historical_data None or the empty list, predicted_minutes is the
\* base estimate followed by the profile adjustment only, for every task and profile.
C6_NoHistoryIsBaseThenProfile ==
    (Predicted /\ HistoryIsFalsy(historical_data)) =>
        prediction.predicted_minutes =
            RTrunc(adjust_with_profile(
                get_base_estimate(task, extract_features(task)), user_profile))

\* A prediction without history in which the profile adjustment shows.
C6_Witness ==
    /\ Predicted
    /\ ~historical_data.given
    /\ user_profile.average_task_duration_minutes = 45
    /\ TaskTypeOf(task) = "coding"
    /\ prediction.base_estimate_minutes = 90
    /\ prediction.predicted_minutes = 135

\* C7: the confidence score lies in [0.3, 0.95] for every task, history and profile.
C7_ConfidenceWithinBounds ==
    Predicted => (prediction.confidence_score >= 30 /\ prediction.confidence_score <= 95)

\* Three similar tasks, a profile average and a long description: 0.5 + 0.3 + 0.2
\* is cut to 0.95.
C7_Witness ==
    /\ Predicted
    /\ Len(find_similar_tasks(task, historical_data.items)) >= 3
    /\ user_profile.average_task_duration_minutes # 0
    /\ task.description.chars >= 10
    /\ prediction.confidence_score = 95

\* C9: batch_predict returns one prediction per task, in order, each equal to
\* predict_task_duration of that task alone with the shared history and profile.
C9_BatchIsElementwise ==
    pc = "done" =>
        /\ Len(predictions) = Len(tasks)
        /\ \A i \in 1..Len(tasks) :
               predictions[i] = predict_task_duration(tasks[i], historical_data, user_profile)

\* A batch of two different tasks with a history, predicted differently.
C9_Witness ==
    /\ pc = "done"
    /\ Len(tasks) = 2
    /\ Len(predictions) = 2
    /\ historical_data.items # <<>>
    /\ predictions[1].predicted_minutes # predictions[2].predicted_minutes

----------------------------------------------------------------------------
(* Properties of the suggestion ranker, checked under SuggestionsSpec *)

\* What the five sub-generators produced, in the order they were called.
Produced ==
    generate_schedule_suggestions(focus_sessions).list
        \o generate_task_prioritization_suggestions(tasks).list
        \o generate_break_timing_suggestions(focus_sessions)
        \o generate_duration_suggestions(focus_sessions)
        \o generate_pattern_suggestions(activity_patterns)
ProducedAt(produced, x) == CHOOSE k \in 1..Len(produced) : produced[k] = x

\* C8: the list generate_suggestions returns has at most 10 elements, is ordered by
\* priority_score non-increasing, and keeps suggestions of equal priority_score in
\* the order their sub-generators produced them.
C8_SuggestionsRankedAndCapped ==
    (pc = "done" /\ suggestions.status = "returned") =>
        LET out == suggestions.list
            produced == Produced
        IN  /\ Len(out) <= 10
            /\ Len(out) = (IF Len(produced) < 10 THEN Len(produced) ELSE 10)
            /\ \A i \in 1..Len(out) : \E k \in 1..Len(produced) : produced[k] = out[i]
            /\ \A i, j \in 1..Len(out) :
                   i < j => /\ out[i].priority_score >= out[j].priority_score
                            /\ (out[i].priority_score = out[j].priority_score
                                    => ProducedAt(produced, out[i]) < ProducedAt(produced, out[j]))

\* All five sub-generators fire; the task suggestion, produced second, comes first.
C8_Witness ==
    /\ pc = "done"
    /\ suggestions.status = "returned"
    /\ Len(suggestions.list) = 5
    /\ Produced[1].suggestion_type = "schedule_optimization"
    /\ suggestions.list[1].suggestion_type = "task_prioritization"
    /\ suggestions.list[5].suggestion_type = "focus_duration"


----------------------------------------------------------------------------
(* Properties of the focus coach, checked under CoachSpec *)

Summarized == pc = "done" /\ summary # NoSummary
Planned == pc = "done" /\ plan # NoPlan

\* C11: an empty task list never raises: summarize_tasks returns exactly the
\* "No tasks to summarize." object with total_tasks 0 and empty categories and
\* priority_breakdown, and generate_focus_plan returns an object with an error field.
C11_EmptyTaskListIsReported ==
    (pc = "done" /\ tasks = <<>>) =>
        /\ Summarized =>
               /\ summary.status = "returned"
               /\ summary.keys = {"summary", "total_tasks", "categories", "priority_breakdown"}
               /\ summary.summary = "No tasks to summarize."
               /\ summary.total_tasks = 0
               /\ DOMAIN summary.categories = {}
               /\ DOMAIN summary.priority_breakdown = {}
        /\ Planned => (plan.status = "returned" /\ "error" \in plan.keys)

\* The empty list was summarized by an instance whose backend would raise.
C11_Witness ==
    /\ Summarized
    /\ tasks = <<>>
    /\ openai_client = "raises"
    /\ summary.total_tasks = 0

----------------------------------------------------------------------------
(* Properties of concurrent invocations, checked under ConcurrentSpec *)

\* What the operation of an invocation returns when run alone on its arguments.
AloneResult(c) ==
    CASE c.op = "generate_focus_plan" ->
             generate_focus_plan(openai_client, c.args.tasks, user_preferences, available_hours)
      [] c.op = "summarize_tasks" -> summarize_tasks(openai_client, c.args.tasks)
      [] c.op = "analyze_activity_patterns" ->
             analyze_activity_patterns(c.args.activities, time_window_hours)
      [] OTHER -> predict_task_duration(task, c.args.historical_data, user_profile)

\* C12: however the steps of concurrent invocations interleave, each invocation
\* returns what it returns when run alone on the same inputs, and no invocation
\* writes the instances' fields (weight table, base-duration table, backend
\* handle) or the record lists the caller passed.
C12_InvocationsIndependent ==
    /\ instances = ConstructedInstances
    /\ openai_client = "none"
    /\ \A i \in DOMAIN calls :
           /\ calls[i].phase # "idle" =>
                  /\ tasks = calls[i].args.tasks
                  /\ activities = calls[i].args.activities
                  /\ historical_data = calls[i].args.historical_data
           /\ calls[i].phase = "returned" => calls[i].result = AloneResult(calls[i])

\* A plan was returned for a list that prioritizing reorders, while a second
\* plan invocation on the same list is between its sort and its summary.
C12_Witness ==
    /\ DOMAIN calls = Invocations
    /\ prioritize_tasks(tasks) # tasks
    /\ \E i, j \in Invocations :
           /\ i # j
           /\ At(i, "generate_focus_plan", "returned")
           /\ calls[i].result.status = "returned"
           /\ At(j, "generate_focus_plan", "summarize")

----------------------------------------------------------------------------
(* Arithmetic safety, checked under EngineSpec *)

Defined(r) == r.den # 0

\* C13: no operation divides by zero.  When every analysed duration is 0 the
\* overall and the per-category scores are 0; empty or disjoint title word sets
\* and tag sets add no overlap to the similarity; the averages of the coach and
\* of the suggestions are defined numbers, computed only over non-empty selections.
C13_NoZeroDenominatorFault ==
    /\ Reported =>
           LET scores == report.distraction_scores
           IN  /\ Defined(scores.overall_distraction_score)
               /\ \A c \in DOMAIN scores.by_category :
                      Defined(scores.by_category[c].avg_score)
               /\ scores.total_duration_seconds = 0 =>
                      /\ scores.overall_distraction_score = RInt(0)
                      /\ \A c \in DOMAIN scores.by_category :
                             scores.by_category[c].avg_score = RInt(0)
    /\ Predicted =>
           \A k \in 1..Len(historical_data.items) :
               LET h == historical_data.items[k]
               IN  /\ Defined(SimilarityScore(task, h))
                   /\ WordSet(task) \cap WordSet(h) = {} =>
                          OverlapTerm(WordSet(task), WordSet(h), 2) = RInt(0)
                   /\ task.tags \cap h.tags = {} =>
                          OverlapTerm(task.tags, h.tags, 1) = RInt(0)
    /\ (Summarized /\ summary.status = "returned" /\ tasks # <<>>) =>
           Defined(summary.average_task_minutes)
    /\ (Planned /\ plan.status = "returned" /\ tasks # <<>>) =>
           /\ Defined(plan.focus_strategy.avg_duration)
           /\ Defined(plan.tasks_summary.average_task_minutes)
    /\ (pc = "done" /\ suggestions.status = "returned") =>
           \A k \in 1..Len(suggestions.list) :
               LET s == suggestions.list[k]
               IN  /\ s.suggestion_type = "break_timing" =>
                          /\ Defined(s.context_data.avg_duration)
                          /\ Defined(s.context_data.avg_interruptions)
                   /\ s.suggestion_type = "focus_duration" =>
                          Defined(s.context_data.optimal_duration)

\* Two activities of duration 0 were analysed: the total duration is 0 and the
\* scores are the fallback 0.
C13_Witness ==
    /\ Reported
    /\ report.total_activities = 2
    /\ report.distraction_scores.total_duration_seconds = 0
    /\ report.distraction_scores.overall_distraction_score = RInt(0)

----------------------------------------------------------------------------
(* The overall distraction pool, checked under DetectorSpec *)

\* The sum of the per-category distraction durations of a report (tenths of a second).
RECURSIVE SumOverCategories(_, _)
SumOverCategories(by_category, cats) ==
    IF cats = {} THEN 0
    ELSE LET c == CHOOSE x \in cats : TRUE
         IN  by_category[c].distraction_duration
                 + SumOverCategories(by_category, cats \ {c})

\* C14: the overall distraction duration of a report is the sum of the
\* per-category distraction durations (every analysed activity adds
\* duration x weight, also one whose category weight is at most 0.5), and the
\* overall score is min(1, that sum / the sum of all durations).
C14_OverallCountsEveryActivity ==
    Reported =>
        LET scores == report.distraction_scores
            pool == SumOverCategories(scores.by_category, DOMAIN scores.by_category)
        IN  /\ scores.distraction_duration_seconds = pool
            /\ scores.overall_distraction_score
                   = ClampOverall(ScoreOf(pool, scores.total_duration_seconds))

----------------------------------------------------------------------------
(* The base estimate and the reported minutes, checked under PredictorSpec *)

\* C15: for a task of type writing, research or email the base estimate is the
\* type's baseline times 1.0 for at most 500 words, 1.5 for more than 500 and at
\* most 1000, and 2.0 alone for more than 1000 words (then times the complexity
\* factor).
C15_WordCountMultiplier ==
    (Predicted /\ TaskTypeOf(task) \in {"writing", "research", "email"}) =>
        LET features == prediction.input_features
            complexity == features.complexity_score
            multiplier == IF features.word_count > 1000 THEN RInt(2)
                          ELSE IF features.word_count > 500 THEN Rat(3, 2)
                          ELSE RInt(1)
            scaled == RMul(RInt(BaselineOf(features.task_type)), multiplier)
            expected == IF complexity > 0
                        THEN RMul(scaled, Rat(5 + complexity, 5)) ELSE scaled
        IN  /\ get_base_estimate(task, features) = expected
            /\ prediction.base_estimate_minutes = RTrunc(expected)

\* C16: predicted_minutes is the final estimate rounded to the nearest integer:
\* a fractional part above one half is reported as the next integer up, one
\* below one half as the integer below.
C16_PredictedMinutesRounded ==
    Predicted =>
        LET final_estimate ==
                adjust_with_profile(
                    adjust_with_history(get_base_estimate(task, extract_features(task)),
                                        task, historical_data),
                    user_profile)
            below == RTrunc(final_estimate)
            twice_fraction == RAdd(RMul(RInt(2), final_estimate), RInt(0 - 2 * below))
        IN  /\ RLess(RInt(1), twice_fraction) => prediction.predicted_minutes = below + 1
            /\ RLess(twice_fraction, RInt(1)) => prediction.predicted_minutes = below

\* C17: whenever a user profile (a non-empty dictionary) is supplied, whatever
\* fields it carries, the confidence before clamping includes the +0.2 profile
\* boost: the reported confidence is the clamp of 0.5 + history boost + 0.2 -
\* vagueness penalty.
C17_ProfileBoostForAnyProfile ==
    (Predicted /\ ~ProfileIsFalsy(user_profile)) =>
        LET similar_count ==
                IF HistoryIsFalsy(historical_data) THEN 0
                ELSE Len(find_similar_tasks(task, historical_data.items))
            historyBoost == IF 10 * similar_count < 30 THEN 10 * similar_count ELSE 30
            vaguePenalty ==
                IF ~task.description.present \/ task.description.chars < 10
                THEN 10 ELSE 0
        IN  prediction.confidence_score
                = ClampConfidence(50 + historyBoost + 20 - vaguePenalty)

----------------------------------------------------------------------------
(* The history blend, checked under BlendSpec *)

\* The similar tasks of the request, the durations recorded among them, and the
\* estimate the blend gives for a base estimate.
SimilarNow == find_similar_tasks(task, historical_data.items)
RecordedDurations ==
    LET withDuration == SelectSeq(SimilarNow, LAMBDA h : ActualOf(h) # 0)
    IN  [i \in 1..Len(withDuration) |-> ActualOf(withDuration[i])]
BlendOf(base, n) ==
    LET w == IF n < 5 THEN Rat(n, 5) ELSE RInt(1)
        adjusted == RAdd(RMul(Mean(RecordedDurations), Rat(3, 10)),
                         RMul(Median(RecordedDurations), Rat(7, 10)))
    IN  RAdd(RMul(base, RAdd(RInt(1), RMul(RInt(-1), w))), RMul(adjusted, w))
BaseNow == get_base_estimate(task, extract_features(task))
OtherBases == {RInt(1), RInt(1000)}
ConfidenceWith(n) ==
    ClampConfidence(50 + (IF 10 * n < 30 THEN 10 * n ELSE 30)
                       + (IF user_profile.average_task_duration_minutes # 0 THEN 20 ELSE 0)
                       - (IF task.description.chars < 10 THEN 10 ELSE 0))

\* C18 as stated: whenever n >= 1 similar tasks are found the adjusted estimate
\* is base x (1 - w) + (0.3 x mean + 0.7 x median of their durations) x w with
\* w = min(n/5, 1); with n >= 5 it does not depend on the base estimate; the
\* confidence boost min(n/10, 0.3) uses the same n.
C18_BlendWheneverSimilar ==
    (Predicted /\ Len(SimilarNow) >= 1) =>
        LET n == Len(SimilarNow)
        IN  /\ n >= 5 =>
                   \A b1, b2 \in OtherBases :
                       adjust_with_history(b1, task, historical_data)
                           = adjust_with_history(b2, task, historical_data)
            /\ prediction.confidence_score = ConfidenceWith(n)
            \* a mean and a median exist, and the estimate is their blend with the base
            /\ RecordedDurations # <<>>
            /\ prediction.predicted_minutes
                   = RTrunc(adjust_with_profile(BlendOf(BaseNow, n), user_profile))

\* C18 amended: the blend applies when at least one of the n >= 1 similar tasks
\* carries a duration, mean and median being taken over the durations recorded;
\* then n >= 5 makes the estimate independent of the base.  When no similar
\* task carries a duration the base estimate passes through unchanged.  The
\* confidence boost uses the same n in both cases.
C18_BlendWhenDurationsRecorded ==
    (Predicted /\ Len(SimilarNow) >= 1) =>
        LET n == Len(SimilarNow)
            expected == IF RecordedDurations = <<>> THEN BaseNow ELSE BlendOf(BaseNow, n)
        IN  /\ prediction.predicted_minutes
                   = RTrunc(adjust_with_profile(expected, user_profile))
            /\ (n >= 5 /\ RecordedDurations # <<>>) =>
                   \A b \in OtherBases :
                       adjust_with_history(b, task, historical_data) = BlendOf(BaseNow, n)
            /\ prediction.confidence_score = ConfidenceWith(n)

\* Five similar tasks with durations 60, 60, 125, 125 and one without: mean
\* 92.5 and median 92.5 replace the base of 90 entirely.
C18_Witness ==
    /\ Predicted
    /\ Len(SimilarNow) = 5
    /\ Len(RecordedDurations) = 4
    /\ user_profile = NoProfile
    /\ prediction.base_estimate_minutes = 90
    /\ prediction.predicted_minutes = 92
    /\ prediction.confidence_score = 80

----------------------------------------------------------------------------
(* The similar tasks kept, checked under SimilarSpec *)

\* C19: the similar tasks found are historical tasks of similarity score >= 2,
\* at most 10 of them, and no qualifying task left out has a strictly higher
\* similarity score than one returned (the 10 kept are the most similar).
C19_TenMostSimilarKept ==
    Predicted =>
        LET history == historical_data.items
            score(h) == SimilarityScore(task, h)
            qualifying == {k \in 1..Len(history) : RLeq(RInt(2), score(history[k]))}
            returned == find_similar_tasks(task, history)
            \* how many returned, and how many qualifying, tasks are more similar than h
            returnedAbove(h) ==
                Cardinality({i \in 1..Len(returned) : RLess(score(h), score(returned[i]))})
            qualifyingAbove(h) ==
                Cardinality({k \in qualifying : RLess(score(h), score(history[k]))})
        IN  /\ Len(returned) <= 10
            /\ \A i \in 1..Len(returned) :
                   /\ \E k \in qualifying : returned[i] = history[k]
                   /\ returnedAbove(returned[i]) = qualifyingAbove(returned[i])

----------------------------------------------------------------------------
(* The order of the plan, checked under CoachSpec *)

----------------------------------------------------------------------------
(* The due-date bonus, checked under CoachSpec *)

\* The tasks of the request whose due date parses, and how far off it is (seconds).
DatedTasks == {i \in 1..Len(tasks) : tasks[i].due_date.form \in {"naive", "zulu"}}
SecondsUntilDue(t) == t.due_date.at - Now
BonusOf(t) == task_score(t) - task_score([t EXCEPT !.due_date = MissingTs])

\* C21 as stated: the bonus of a task is +3 when it is due before now, +2 or +1
\* when it is due within one day from now, and a task due more than 24 hours
\* from now receives no bonus.
C21_NoBonusBeyondOneDay ==
    (Planned /\ plan.status = "returned") =>
        \A i \in DatedTasks :
            LET t == tasks[i]
            IN  /\ SecondsUntilDue(t) < 0 => BonusOf(t) = 3
                /\ (SecondsUntilDue(t) >= 0 /\ SecondsUntilDue(t) <= SecondsPerDay)
                       => BonusOf(t) \in {1, 2}
                /\ SecondsUntilDue(t) > SecondsPerDay => BonusOf(t) = 0

\* C21 amended: the bonus is +3 when the task is due before now, +2 when it is
\* due less than 24 hours from now, +1 when it is due at least 24 and less than
\* 48 hours from now, and 0 otherwise: when it is due 48 hours or more from now
\* and when the due date is missing or does not parse.
C21_BonusByWholeDays ==
    (Planned /\ plan.status = "returned") =>
        \A i \in 1..Len(tasks) :
            LET t == tasks[i]
                until == SecondsUntilDue(t)
            IN  BonusOf(t) =
                    IF i \notin DatedTasks THEN 0
                    ELSE IF until < 0 THEN 3
                    ELSE IF until < SecondsPerDay THEN 2
                    ELSE IF until < 2 * SecondsPerDay THEN 1
                    ELSE 0

\* A task due in 30 hours, sent after one due in 50 hours of the same priority:
\* its bonus of 1 puts it first in the schedule.
C21_Witness ==
    /\ Planned
    /\ plan.status = "returned"
    /\ Len(tasks) = 2
    /\ tasks[1].due_date = DueLaterTs
    /\ tasks[2].due_date = DueTomorrowTs
    /\ BonusOf(tasks[1]) = 0
    /\ BonusOf(tasks[2]) = 1
    /\ prioritize_tasks(tasks) = <<tasks[2], tasks[1]>>

\* C22: a task whose due_date is present but does not parse as ISO-8601 makes
\* generate_focus_plan fail with a distinguishable error (an exception or an
\* error result); no plan is made that treats the task as having no due date.
C22_MalformedDueDateFailsPlan ==
    (Planned /\ \E i \in 1..Len(tasks) : tasks[i].due_date.form = "garbage") =>
        \/ plan.status = "raised"
        \/ "error" \in plan.keys

----------------------------------------------------------------------------
(* The schedule of the plan, checked under CoachSpec *)

PlanReturned == Planned /\ plan.status = "returned" /\ tasks # <<>>
ScheduledEntries == plan.recommended_schedule.task_schedule
\* The estimate of the k-th prioritised task, 30 when the record has none.
EstimateAt(k) ==
    LET t == prioritize_tasks(tasks)[k]
    IN  IF t.estimated_minutes.kind = "int" THEN t.estimated_minutes.value ELSE 30
CumulativeEstimate(k) == SumSeq([j \in 1..k |-> EstimateAt(j)])

\* C23: for no or a positive available_hours, the minutes scheduled never exceed
\* the budget (available_hours x 60, 8 hours by default) after any iteration nor
\* in the plan; the scheduled tasks are the prioritised list up to, and not
\* including, the first task that does not fit; estimated_total_minutes equals
\* total_scheduled_minutes.
C23_ScheduleIsFittingPrefix ==
    (PlanReturned /\ (available_hours.given => available_hours.value > 0)) =>
        LET budget == 60 * (IF available_hours.given THEN available_hours.value ELSE 8)
            m == Len(ScheduledEntries)
        IN  /\ m <= Len(tasks)
            /\ \A k \in 1..m :
                   /\ CumulativeEstimate(k) <= budget
                   /\ ScheduledEntries[k].order = k
                   /\ ScheduledEntries[k].estimated_minutes = EstimateAt(k)
            /\ m < Len(tasks) => CumulativeEstimate(m + 1) > budget
            /\ plan.recommended_schedule.total_scheduled_minutes = CumulativeEstimate(m)
            /\ plan.recommended_schedule.total_scheduled_minutes <= budget
            /\ plan.estimated_total_minutes
                   = plan.recommended_schedule.total_scheduled_minutes

\* One hour available: the first task of 30 minutes is scheduled, the next of 90
\* minutes does not fit.
C23_Witness ==
    /\ PlanReturned
    /\ available_hours = Hours(1)
    /\ Len(tasks) = 2
    /\ Len(ScheduledEntries) = 1
    /\ EstimateAt(2) = 90
    /\ plan.estimated_total_minutes = 30

\* C24: a task with no estimate, the estimated_minutes key being absent or
\* carrying null, is scheduled with an estimate of 30 minutes and the call
\* completes (no language-model backend, default preferences).
C24_UnspecifiedEstimateIsThirty ==
    (/\ Planned
     /\ tasks # <<>>
     /\ openai_client = "none"
     /\ user_preferences = NoPreferences
     /\ \A i \in 1..Len(tasks) : tasks[i].estimated_minutes.kind \in {"missing", "none"}) =>
        /\ plan.status = "returned"
        /\ "error" \notin plan.keys
        /\ Len(plan.recommended_schedule.task_schedule) = Len(tasks)
        /\ \A k \in 1..Len(tasks) :
               plan.recommended_schedule.task_schedule[k].estimated_minutes = 30

----------------------------------------------------------------------------
(* Recurring distractions and score statistics, checked under ReportSpec *)

\* The distraction categories (weight > 0.5) among the activities of the request,
\* all of which lie inside the window in these runs.
DistractionCategoriesPresent ==
    {c \in {CategoryOf(activities[i]) : i \in 1..Len(activities)} : WeightOf(c) > 5}

\* C25: each of the up to three most frequent distraction categories present in
\* the analysed activities yields exactly one recurring_distraction pattern,
\* however often categories of weight <= 0.5 occur; stated for at most three
\* distraction categories present, when all of them are among the most frequent.
C25_EveryFrequentDistractionReported ==
    (Reported /\ Cardinality(DistractionCategoriesPresent) <= 3) =>
        \A c \in DistractionCategoriesPresent :
            Cardinality({k \in Patterns("recurring_distraction") :
                            report.patterns[k].category = c}) = 1

\* C26: the average, maximum and minimum distraction_score are taken over exactly
\* the analysed activities that carry a distraction_score, a score of 0
\* included; only activities without the field (or with null) are left out.
C26_StatisticsCountExplicitZero ==
    Reported =>
        LET carrying == SelectSeq(activities, LAMBDA a : ~ExplicitScoreOf(a).null)
            scores == [i \in 1..Len(carrying) |-> ExplicitScoreOf(carrying[i]).value]
            stats == report.statistics
        IN  scores # <<>> =>
                /\ stats.avg_distraction_score = Mean(scores)
                /\ stats.max_distraction_score = SeqMax(scores)
                /\ stats.min_distraction_score = SeqMin(scores)

----------------------------------------------------------------------------
(* Due dates with a trailing Z, checked under SuggestionsSpec *)

\* C27: with well-formed session timestamps and task due dates, among them due
\* dates with a trailing Z, generate_suggestions returns a list; a Z due date is
\* a UTC instant, and the task_prioritization suggestion (priority_score 0.95,
\* first in the list) is there exactly when some task that is not completed or
\* cancelled and is urgent or high is due before now.
C27_ZuluDueDateIsUtcInstant ==
    (/\ pc = "done"
     /\ suggestions # NoSuggestions
     /\ \A i \in 1..Len(focus_sessions) : focus_sessions[i].started_at.form = "naive"
     /\ \A i \in 1..Len(tasks) : tasks[i].due_date.form \in {"missing", "naive", "zulu"}
     /\ \E i \in 1..Len(tasks) : tasks[i].due_date.form = "zulu") =>
        LET overdue == {i \in 1..Len(tasks) :
                           /\ IncompleteHighPriority(tasks[i])
                           /\ tasks[i].due_date.form \in {"naive", "zulu"}
                           /\ tasks[i].due_date.at < Now}
            prioritization == {k \in 1..Len(suggestions.list) :
                                  suggestions.list[k].suggestion_type = "task_prioritization"}
        IN  /\ suggestions.status = "returned"
            /\ overdue = {} => prioritization = {}
            /\ overdue # {} =>
                   /\ prioritization = {1}
                   /\ suggestions.list[1].priority_score = 95
                   /\ suggestions.list[1].context_data.overdue_count = Cardinality(overdue)

----------------------------------------------------------------------------
(* The language-model backend, checked under CoachSpec *)

\* C28: summarize_tasks ends with a summary text; when a language-model backend
\* is configured and its call raises, the text is the rule-based summary of the
\* tasks, the call neither failing nor retrying without end.
C28_FailingBackendFallsBack ==
    (Summarized /\ tasks # <<>>) =>
        /\ summary.status = "returned"
        /\ "summary" \in summary.keys
        /\ openai_client = "raises" =>
               summary.summary =
                   RuleBasedSummary(Len(tasks),
                                    summary.priority_breakdown["urgent"],
                                    summary.priority_breakdown["high"],
                                    Cardinality(DOMAIN summary.categories))

\* C29: in every schedule of a plan the clock only moves forward: each task
\* starts no earlier than its predecessor's start plus the predecessor's
\* estimate plus the 5-minute buffer, so no two scheduled tasks overlap.
C29_ClockMovesForward ==
    PlanReturned =>
        \A k \in 1..(Len(ScheduledEntries) - 1) :
            ScheduledEntries[k + 1].scheduled_time
                >= ScheduledEntries[k].scheduled_time
                       + ScheduledEntries[k].estimated_minutes + 5

\* C30: the 8-hour budget applies only when the caller supplies no
\* available_hours; with a supplied available_hours of 0 the budget is 0 minutes
\* and no task with a positive estimate is scheduled.
C30_ZeroHoursSchedulesNothing ==
    (PlanReturned /\ available_hours = Hours(0)) =>
        /\ \A k \in 1..Len(ScheduledEntries) : ScheduledEntries[k].estimated_minutes = 0
        /\ plan.recommended_schedule.total_scheduled_minutes = 0
        /\ plan.estimated_total_minutes = 0

====
